---------------------------- MODULE Spec2Model ----------------------------
(***************************************************************************)
(* A model of the ionCube decoder family of iSundram/ion:                  *)
(*   IonCubeDecoder              (ioncube_decoder.py)                      *)
(*   AdvancedIonCubeDecoder      (advanced_ioncube_decoder.py)             *)
(*   IonCubeV83Decoder           (ioncube_v83_decoder.py)                  *)
(*   UltimateIonCubeDecoder      (ultimate_ioncube_decoder.py)             *)
(*   AdvancedSourceRecoveryDecoder (advanced_source_recovery_decoder.py)   *)
(*   PracticalSourceRecovery     (practical_source_recovery.py)            *)
(*                                                                         *)
(* Bytes are the integers 0..255, byte strings and texts are sequences of  *)
(* them (a text is a sequence of code points).  An Optional result of the  *)
(* Python code is a record [ok, val]: None is [ok |-> FALSE].              *)
(***************************************************************************)
EXTENDS Integers, Sequences, FiniteSets, TLC

(***************************************************************************)
(* Optional values and Python truthiness                                   *)
(***************************************************************************)
None == [ok |-> FALSE, val |-> <<>>]

Some(v) == [ok |-> TRUE, val |-> v]

\* `if result:` on an Optional[bytes] / Optional[str]
Truthy(r) == r.ok /\ r.val # <<>>

(***************************************************************************)
(* Sequence helpers                                                        *)
(***************************************************************************)
\* s[n:] of Python, n counted from 0
Drop(s, n) == IF n >= Len(s) THEN <<>> ELSE SubSeq(s, n + 1, Len(s))

\* s[:n]
Take(s, n) == IF n >= Len(s) THEN s ELSE SubSeq(s, 1, n)

\* s[a:b]
Slice(s, a, b) == Take(Drop(s, a), IF b > a THEN b - a ELSE 0)

\* s[::-1]
Reverse(s) == [i \in 1..Len(s) |-> s[Len(s) + 1 - i]]

\* pat occurs in s at the 0-based position i
MatchAt(s, pat, i) ==
    /\ i + Len(pat) <= Len(s)
    /\ \A j \in 1..Len(pat) : s[i + j] = pat[j]

\* `pat in s`
Contains(s, pat) == \E i \in 0..(Len(s) - Len(pat)) : MatchAt(s, pat, i)

\* s.count(pat) for a pattern that cannot overlap itself (every pattern the
\* decoders count is one)
Count(s, pat) == Cardinality({i \in 0..(Len(s) - Len(pat)) : MatchAt(s, pat, i)})

\* s.find(pat, start): the first position >= start, or -1
Find(s, pat, start) ==
    LET hits == {i \in start..(Len(s) - Len(pat)) : MatchAt(s, pat, i)}
    IN  IF hits = {} THEN -1 ELSE CHOOSE i \in hits : \A j \in hits : i <= j

\* s * n
Rep(s, n) == [i \in 1..(n * Len(s)) |-> s[((i - 1) % Len(s)) + 1]]

\* the members of the sequence s that satisfy Test(_), in order
Select(s, Test(_)) == SelectSeq(s, Test)

\* the indices 1..Len(s) whose position satisfies At(_), in order
IndicesWhere(s, At(_)) == SelectSeq([i \in 1..Len(s) |-> i], At)

RECURSIVE SumOver(_, _, _)
\* the sum of f[lo..hi], by halving
SumOver(f, lo, hi) ==
    IF lo > hi THEN 0
    ELSE IF lo = hi THEN f[lo]
    ELSE LET mid == (lo + hi) \div 2
         IN  SumOver(f, lo, mid) + SumOver(f, mid + 1, hi)

RECURSIVE ConcatOver(_, _, _)
\* f[lo] \o ... \o f[hi], by halving
ConcatOver(f, lo, hi) ==
    IF lo > hi THEN <<>>
    ELSE IF lo = hi THEN f[lo]
    ELSE LET mid == (lo + hi) \div 2
         IN  ConcatOver(f, lo, mid) \o ConcatOver(f, mid + 1, hi)

\* ''.join(parts)
Flatten(parts) == ConcatOver(parts, 1, Len(parts))

\* range(a, b, step) as a sequence
Range(a, b, step) ==
    IF b <= a THEN <<>>
    ELSE [i \in 1..(((b - a - 1) \div step) + 1) |-> a + (i - 1) * step]

Min(a, b) == IF a < b THEN a ELSE b

Max(a, b) == IF a > b THEN a ELSE b

\* the first candidate of the sequence that is a result
FirstOk(cands) ==
    LET hits == {k \in 1..Len(cands) : cands[k].ok}
    IN  IF hits = {} THEN None ELSE cands[CHOOSE k \in hits : \A j \in hits : k <= j]

(***************************************************************************)
(* Byte arithmetic                                                         *)
(***************************************************************************)
RECURSIVE XorBits(_, _, _)
XorBits(a, b, n) ==
    IF n = 0 THEN 0
    ELSE (((a % 2) + (b % 2)) % 2) + 2 * XorBits(a \div 2, b \div 2, n - 1)

\* b ^ key on bytes
XorByte(a, b) == XorBits(a, b, 8)

\* bytes(b ^ key for b in data)
XorKey(data, key) == [i \in 1..Len(data) |-> XorByte(data[i], key)]

\* bytes(data[i] ^ pattern[i % len(pattern)] for i in range(len(data)))
XorPattern(data, pattern) ==
    [i \in 1..Len(data) |-> XorByte(data[i], pattern[((i - 1) % Len(pattern)) + 1])]

\* the shift as it would be without the reduction mod 256, the sum held at 255
AddShift_saturating(data, shift) ==
    [i \in 1..Len(data) |-> IF data[i] + shift > 255 THEN 255 ELSE data[i] + shift]

\* bytes((b + shift) % 256 for b in data)
AddShift(data, shift) == [i \in 1..Len(data) |-> (data[i] + shift) % 256]


(***************************************************************************)
(* zlib.  The model decodes the deflate streams built from stored blocks   *)
(* (BTYPE 00), with the zlib wrapper (header check, Adler-32 trailer) or   *)
(* raw.  A block with Huffman coding (BTYPE 01, 10) is not decoded: the    *)
(* byte strings of the model are built with stored blocks, and a buffer    *)
(* that starts such a block is reported as a decompression error.          *)
(***************************************************************************)
\* the four big-endian bytes of adler32(d): a = 1 + the sum of the bytes,
\* b = the sum of the values a takes, both modulo 65521
Adler32(d) ==
    LET n == Len(d)
        a == (1 + SumOver(d, 1, n)) % 65521
        b == (n + SumOver([i \in 1..n |-> (n + 1 - i) * d[i]], 1, n)) % 65521
    IN  <<b \div 256, b % 256, a \div 256, a % 256>>

\* zlib.compress with stored blocks: CMF 0x78, FLG flg (0x01 is what level 0
\* writes; 0x9c is as valid a header), one final stored block, Adler-32
ZlibCompress(p, flg) ==
    <<120, flg, 1, Len(p) % 256, Len(p) \div 256,
      255 - (Len(p) % 256), 255 - (Len(p) \div 256)>> \o p \o Adler32(p)

InflateError == [ok |-> FALSE, val |-> <<>>, next |-> 0]

RECURSIVE Inflate(_, _, _)
\* raw inflate of d from the 0-based position pos; next is the position
\* after the last block
Inflate(d, pos, out) ==
    IF pos >= Len(d) THEN InflateError
    ELSE LET hdr    == d[pos + 1]
             bfinal == hdr % 2
             btype  == (hdr \div 2) % 4
         IN  IF btype # 0 \/ pos + 5 > Len(d) THEN InflateError
             ELSE LET len  == d[pos + 2] + 256 * d[pos + 3]
                      nlen == d[pos + 4] + 256 * d[pos + 5]
                  IN  IF len + nlen # 65535 \/ pos + 5 + len > Len(d)
                      THEN InflateError
                      ELSE LET out2 == out \o SubSeq(d, pos + 6, pos + 5 + len)
                           IN  IF bfinal = 1
                               THEN [ok |-> TRUE, val |-> out2, next |-> pos + 5 + len]
                               ELSE Inflate(d, pos + 5 + len, out2)

\* zlib.decompress(d, wbits): None stands for the zlib.error it raises.
\* Bytes after the end of the stream are ignored, as zlib.decompress does.
ZlibDecompressW(d, wbits) ==
    LET Raw(r) == IF r.ok THEN Some(r.val) ELSE None
        Wrapped(r) ==
            IF ~r.ok \/ r.next + 4 > Len(d) THEN None
            ELSE IF SubSeq(d, r.next + 1, r.next + 4) # Adler32(r.val) THEN None
            ELSE Some(r.val)
    IN  IF wbits < 0 THEN Raw(Inflate(d, 0, <<>>))
        ELSE IF Len(d) < 2 THEN None
        ELSE IF \/ d[1] % 16 # 8
                \/ (d[1] \div 16) + 8 > wbits
                \/ (d[1] * 256 + d[2]) % 31 # 0
                \/ (d[2] \div 32) % 2 = 1
             THEN None
        ELSE Wrapped(Inflate(d, 2, <<>>))

\* zlib.decompress(d)
ZlibDecompress(d) == ZlibDecompressW(d, 15)

\* gzip.decompress(d): the magic 1f 8b, method 8, no optional fields, a raw
\* deflate body and the ISIZE trailer; the CRC-32 is not recomputed
GzipDecompress(d) ==
    IF Len(d) < 10 \/ d[1] # 31 \/ d[2] # 139 \/ d[3] # 8 \/ d[4] # 0 THEN None
    ELSE LET Body(r) ==
                IF ~r.ok \/ r.next + 8 > Len(d) THEN None
                ELSE IF d[r.next + 5] + 256 * d[r.next + 6] # Len(r.val) THEN None
                ELSE Some(r.val)
         IN  Body(Inflate(d, 10, <<>>))

(***************************************************************************)
(* base64                                                                  *)
(***************************************************************************)
IsUpper(c) == c >= 65 /\ c <= 90

IsLower(c) == c >= 97 /\ c <= 122

IsDigit(c) == c >= 48 /\ c <= 57

\* the standard alphabet, without the pad
IsB64(c) == IsUpper(c) \/ IsLower(c) \/ IsDigit(c) \/ c = 43 \/ c = 47

B64Val(c) ==
    IF IsUpper(c) THEN c - 65
    ELSE IF IsLower(c) THEN c - 71
    ELSE IF IsDigit(c) THEN c + 4
    ELSE IF c = 43 THEN 62 ELSE 63

B64Char(v) ==
    IF v < 26 THEN v + 65
    ELSE IF v < 52 THEN v + 71
    ELSE IF v < 62 THEN v - 4
    ELSE IF v = 62 THEN 43 ELSE 47

\* base64.b64encode(d): the k-th character of the output
B64Encode(d) ==
    LET n == Len(d)
        At(i) == IF i <= n THEN d[i] ELSE 0
    IN  [k \in 1..(4 * ((n + 2) \div 3)) |->
            LET g == 3 * ((k - 1) \div 4)
                r == (k - 1) % 4
            IN  IF r = 0 THEN B64Char(At(g + 1) \div 4)
                ELSE IF r = 1
                THEN B64Char((At(g + 1) % 4) * 16 + (At(g + 2) \div 16))
                ELSE IF r = 2
                THEN IF g + 2 > n THEN 61
                     ELSE B64Char((At(g + 2) % 16) * 4 + (At(g + 3) \div 64))
                ELSE IF g + 3 > n THEN 61 ELSE B64Char(At(g + 3) % 64)]

\* binascii.a2b_base64, not strict.  Characters outside the alphabet are
\* skipped.  With q the number of alphabet characters read so far modulo 4,
\* a pad ends the input when q = 3, or when q = 2 and it is at least the
\* second pad since the last alphabet character; a quad left dangling at
\* the end of the input is an error (None).
A2B(s) ==
    LET IsCh(c) == IsB64(c) \/ c = 61
        \* f: the alphabet characters and pads of s; data: the positions in f
        \* of the alphabet characters
        Of(f, data) ==
            LET Before(j) == Cardinality({i \in 1..Len(data) : data[i] < j})
                StopsQ(j, q) ==
                    \/ q % 4 = 3
                    \/ q % 4 = 2 /\ j - (IF q = 0 THEN 0 ELSE data[q]) >= 2
                Stops(j) == f[j] = 61 /\ StopsQ(j, Before(j))
                v(i) == B64Val(f[data[i]])
                \* k alphabet characters are decoded
                Out(k, stopped) ==
                    IF ~stopped /\ k % 4 # 0 THEN None
                    ELSE Some([n \in 1..(3 * (k \div 4)
                                          + (IF k % 4 >= 2 THEN (k % 4) - 1 ELSE 0)) |->
                            LET g == 4 * ((n - 1) \div 3)
                                r == (n - 1) % 3
                            IN  IF r = 0 THEN v(g + 1) * 4 + (v(g + 2) \div 16)
                                ELSE IF r = 1
                                THEN (v(g + 2) % 16) * 16 + (v(g + 3) \div 4)
                                ELSE (v(g + 3) % 4) * 64 + v(g + 4)])
                Upto(stops) ==
                    IF stops = {} THEN Out(Len(data), FALSE)
                    ELSE Out(Before(CHOOSE j \in stops : \A x \in stops : j <= x), TRUE)
            IN  Upto({j \in 1..Len(f) : Stops(j)})
        OfChars(f) == Of(f, IndicesWhere(f, LAMBDA i : f[i] # 61))
    IN  OfChars(SelectSeq(s, IsCh))

\* base64.b64decode(s) of a str (every call of the decoders passes a str): a
\* non-ASCII character is a ValueError (None)
B64Decode(s) ==
    IF \E i \in 1..Len(s) : s[i] >= 128 THEN None ELSE A2B(s)

(***************************************************************************)
(* UTF-8                                                                   *)
(***************************************************************************)
IsCont(s, i) == i <= Len(s) /\ s[i] >= 128 /\ s[i] <= 191

\* the length of the well-formed UTF-8 sequence that starts at s[i], 0 when
\* there is none
Utf8Len(s, i) ==
    LET b == s[i]
    IN  IF b < 128 THEN 1
        ELSE IF b >= 194 /\ b <= 223 /\ IsCont(s, i + 1) THEN 2
        ELSE IF /\ b >= 224 /\ b <= 239
                /\ IsCont(s, i + 1) /\ IsCont(s, i + 2)
                /\ (b = 224 => s[i + 1] >= 160)
                /\ (b = 237 => s[i + 1] <= 159)
        THEN 3
        ELSE IF /\ b >= 240 /\ b <= 244
                /\ IsCont(s, i + 1) /\ IsCont(s, i + 2) /\ IsCont(s, i + 3)
                /\ (b = 240 => s[i + 1] >= 144)
                /\ (b = 244 => s[i + 1] <= 143)
        THEN 4
        ELSE 0

Utf8CodePoint(s, i, n) ==
    IF n = 1 THEN s[i]
    ELSE IF n = 2 THEN (s[i] - 192) * 64 + (s[i + 1] - 128)
    ELSE IF n = 3
    THEN (s[i] - 224) * 4096 + (s[i + 1] - 128) * 64 + (s[i + 2] - 128)
    ELSE (s[i] - 240) * 262144 + (s[i + 1] - 128) * 4096
         + (s[i + 2] - 128) * 64 + (s[i + 3] - 128)

\* data.decode('utf-8', errors='ignore'): the text as code points, every
\* byte that is part of no well-formed sequence dropped.  A well-formed
\* sequence starts at every byte that is no continuation byte and heads
\* one: a sequence consumes continuation bytes only.
Utf8Ignore(data) ==
    LET Starts(i) == ~(data[i] >= 128 /\ data[i] <= 191) /\ Utf8Len(data, i) > 0
        At(starts) ==
            [k \in 1..Len(starts) |->
                Utf8CodePoint(data, starts[k], Utf8Len(data, starts[k]))]
    IN  At(IndicesWhere(data, Starts))

\* the UTF-8 bytes of one code point
Utf8Bytes(c) ==
    IF c < 128 THEN <<c>>
    ELSE IF c < 2048 THEN <<192 + (c \div 64), 128 + (c % 64)>>
    ELSE IF c < 65536
    THEN <<224 + (c \div 4096), 128 + ((c \div 64) % 64), 128 + (c % 64)>>
    ELSE <<240 + (c \div 262144), 128 + ((c \div 4096) % 64),
           128 + ((c \div 64) % 64), 128 + (c % 64)>>

\* text.encode('utf-8')
Utf8Encode(t) == ConcatOver([i \in 1..Len(t) |-> Utf8Bytes(t[i])], 1, Len(t))

(***************************************************************************)
(* Character classes and the plausibility scorers.  Beyond Latin-1 a code  *)
(* point is taken to be printable, alphanumeric and its own lower case.    *)
(***************************************************************************)
\* str.isalnum()
IsAlnum(c) ==
    \/ IsUpper(c) \/ IsLower(c) \/ IsDigit(c)
    \/ c \in {170, 178, 179, 181, 185, 186, 188, 189, 190}
    \/ (c >= 192 /\ c # 215 /\ c # 247)

\* str.isprintable()
IsPrintable(c) == (c >= 32 /\ c <= 126) \/ (c >= 161 /\ c # 173)

\* str.lower()
Lower(t) ==
    [i \in 1..Len(t) |->
        IF IsUpper(t[i]) \/ (t[i] >= 192 /\ t[i] <= 222 /\ t[i] # 215)
        THEN t[i] + 32 ELSE t[i]]

\* [a-zA-Z_]
IsIdentStart(c) == IsUpper(c) \/ IsLower(c) \/ c = 95

\* len(re.findall(r'\$[a-zA-Z_][a-zA-Z0-9_]*', text)): a match starts at
\* every '$' that an identifier start follows
VarCount(t) ==
    Cardinality({i \in 1..(Len(t) - 1) : t[i] = 36 /\ IsIdentStart(t[i + 1])})

\* how many of the patterns occur in t
HowManyIn(pats, t) == Cardinality({i \in 1..Len(pats) : Contains(t, pats[i])})

\* sum(t.count(p) for p in pats)
SumCounts(pats, t) == SumOver([i \in 1..Len(pats) |-> Count(t, pats[i])], 1, Len(pats))

\* sum(1 for c in text if ord(c) < 32 and c not in '\n\r\t ')
BinaryCount(t) == Cardinality({i \in 1..Len(t) : t[i] < 32 /\ t[i] \notin {9, 10, 13}})

\* ';', '{', '}', '(', ')', '->', '=>'
SyntaxElements ==
    << <<59>>, <<123>>, <<125>>, <<40>>, <<41>>, <<45, 62>>, <<61, 62>> >>

\* UltimateIonCubeDecoder._is_valid_php: strong_indicators
\* '<?php', 'function ', 'class ', 'namespace ', 'use ', 'echo ', 'print ', 'return ',
\* 'if(', 'for(', 'while(', '$_GET', '$_POST', '$_SESSION', '$_REQUEST'
Ultimate_strong_indicators ==
    << <<60, 63, 112, 104, 112>>,
       <<102, 117, 110, 99, 116, 105, 111, 110, 32>>,
       <<99, 108, 97, 115, 115, 32>>,
       <<110, 97, 109, 101, 115, 112, 97, 99, 101, 32>>,
       <<117, 115, 101, 32>>,
       <<101, 99, 104, 111, 32>>,
       <<112, 114, 105, 110, 116, 32>>,
       <<114, 101, 116, 117, 114, 110, 32>>,
       <<105, 102, 40>>,
       <<102, 111, 114, 40>>,
       <<119, 104, 105, 108, 101, 40>>,
       <<36, 95, 71, 69, 84>>,
       <<36, 95, 80, 79, 83, 84>>,
       <<36, 95, 83, 69, 83, 83, 73, 79, 78>>,
       <<36, 95, 82, 69, 81, 85, 69, 83, 84>> >>

\* the score _is_valid_php computes (the text is not empty)
Ultimate_score(t) ==
    LET strong_count == HowManyIn(Ultimate_strong_indicators, Lower(t))
        var_count    == VarCount(t)
        syntax_count == SumCounts(SyntaxElements, t)
        base == strong_count * 5 + Min(var_count, 10) + Min(syntax_count \div 5, 10)
    IN  \* binary_ratio > 0.15
        IF BinaryCount(t) * 20 > 3 * Len(t) THEN base - 20 ELSE base

Ultimate_threshold == 15

Ultimate_is_valid_php(t) ==
    IF Len(t) < 20 THEN FALSE ELSE Ultimate_score(t) >= Ultimate_threshold

\* IonCubeDecoder._is_valid_php: php_indicators
\* '<?php', '<?', 'function ', 'class ', '$', 'echo ', 'print '
IonCube_php_indicators ==
    << <<60, 63, 112, 104, 112>>,
       <<60, 63>>,
       <<102, 117, 110, 99, 116, 105, 111, 110, 32>>,
       <<99, 108, 97, 115, 115, 32>>,
       <<36>>,
       <<101, 99, 104, 111, 32>>,
       <<112, 114, 105, 110, 116, 32>> >>

IonCube_is_valid_php(t) ==
    IF Len(t) < 10 THEN FALSE ELSE HowManyIn(IonCube_php_indicators, Lower(t)) > 0

\* AdvancedIonCubeDecoder.is_valid_php_code: strong_indicators
\* '<?php', '<?=', 'function ', 'class ', 'namespace ', 'use ', 'require', 'include',
\* 'echo ', 'print ', 'return ', 'if (', 'for (', 'while (', 'foreach ('
AdvIon_strong_indicators ==
    << <<60, 63, 112, 104, 112>>,
       <<60, 63, 61>>,
       <<102, 117, 110, 99, 116, 105, 111, 110, 32>>,
       <<99, 108, 97, 115, 115, 32>>,
       <<110, 97, 109, 101, 115, 112, 97, 99, 101, 32>>,
       <<117, 115, 101, 32>>,
       <<114, 101, 113, 117, 105, 114, 101>>,
       <<105, 110, 99, 108, 117, 100, 101>>,
       <<101, 99, 104, 111, 32>>,
       <<112, 114, 105, 110, 116, 32>>,
       <<114, 101, 116, 117, 114, 110, 32>>,
       <<105, 102, 32, 40>>,
       <<102, 111, 114, 32, 40>>,
       <<119, 104, 105, 108, 101, 32, 40>>,
       <<102, 111, 114, 101, 97, 99, 104, 32, 40>> >>

\* text.lower().strip(): leading and trailing white space removed
IsSpace(c) == c \in {9, 10, 11, 12, 13, 28, 29, 30, 31, 32, 133, 160}

Strip(t) ==
    LET keep == {i \in 1..Len(t) : ~IsSpace(t[i])}
    IN  IF keep = {} THEN <<>>
        ELSE SubSeq(t, CHOOSE i \in keep : \A j \in keep : i <= j,
                       CHOOSE i \in keep : \A j \in keep : i >= j)

\* '$' and the syntax elements: weak_indicators
AdvIon_weak_indicators == << <<36>> >> \o SyntaxElements

AdvIon_score(t) ==
    LET strong_count == HowManyIn(AdvIon_strong_indicators, Strip(Lower(t)))
        weak_count   == HowManyIn(AdvIon_weak_indicators, t)
        var_matches  == VarCount(t)
        base == strong_count * 3 + Min(weak_count \div 5, 3) + Min(var_matches \div 2, 2)
    IN  \* binary_chars > len(text) * 0.1
        IF BinaryCount(t) * 10 > Len(t) THEN base - 5 ELSE base

AdvIon_threshold == 3

AdvIon_is_valid_php_code(t) ==
    IF Len(t) < 5 THEN FALSE ELSE AdvIon_score(t) >= AdvIon_threshold

\* IonCubeV83Decoder.is_valid_php: strong_indicators
\* '<?php', 'function ', 'class ', 'namespace ', 'use ', '$_GET', '$_POST', '$_SESSION', 'echo ', 'print ', 'return '
V83_strong_indicators ==
    << <<60, 63, 112, 104, 112>>,
       <<102, 117, 110, 99, 116, 105, 111, 110, 32>>,
       <<99, 108, 97, 115, 115, 32>>,
       <<110, 97, 109, 101, 115, 112, 97, 99, 101, 32>>,
       <<117, 115, 101, 32>>,
       <<36, 95, 71, 69, 84>>,
       <<36, 95, 80, 79, 83, 84>>,
       <<36, 95, 83, 69, 83, 83, 73, 79, 78>>,
       <<101, 99, 104, 111, 32>>,
       <<112, 114, 105, 110, 116, 32>>,
       <<114, 101, 116, 117, 114, 110, 32>> >>

V83_score(t) ==
    LET strong_score == HowManyIn(V83_strong_indicators, Lower(t))
        var_count    == VarCount(t)
        syntax_score == HowManyIn(SyntaxElements, t)
        base == strong_score * 3 + Min(var_count \div 2, 5) + Min(syntax_score \div 10, 3)
    IN  \* binary_ratio > 0.2
        IF BinaryCount(t) * 5 > Len(t) THEN base - 10 ELSE base

V83_threshold == 4

V83_is_valid_php(t) ==
    IF Len(t) < 20 THEN FALSE ELSE V83_score(t) >= V83_threshold

\* AdvancedSourceRecoveryDecoder.is_readable_php: php_indicators
\* '<?php', 'function ', 'class ', '$this->', 'return ', 'echo ', 'print ', 'if (', 'while (', 'foreach ('
AdvSrc_php_indicators ==
    << <<60, 63, 112, 104, 112>>,
       <<102, 117, 110, 99, 116, 105, 111, 110, 32>>,
       <<99, 108, 97, 115, 115, 32>>,
       <<36, 116, 104, 105, 115, 45, 62>>,
       <<114, 101, 116, 117, 114, 110, 32>>,
       <<101, 99, 104, 111, 32>>,
       <<112, 114, 105, 110, 116, 32>>,
       <<105, 102, 32, 40>>,
       <<119, 104, 105, 108, 101, 32, 40>>,
       <<102, 111, 114, 101, 97, 99, 104, 32, 40>> >>

\* indicator_count >= 3 and readable_ratio > 0.8
AdvSrc_is_readable_php(t) ==
    /\ HowManyIn(AdvSrc_php_indicators, t) >= 3
    /\ t # <<>>
    /\ Cardinality({i \in 1..Len(t) : IsPrintable(t[i])}) * 5 > 4 * Len(t)

\* PracticalSourceRecovery.contains_php_patterns: patterns
\* '<?php', 'function ', 'class ', '$this->', 'return ', 'echo ', 'if (', 'while ('
Practical_contains_patterns ==
    << <<60, 63, 112, 104, 112>>,
       <<102, 117, 110, 99, 116, 105, 111, 110, 32>>,
       <<99, 108, 97, 115, 115, 32>>,
       <<36, 116, 104, 105, 115, 45, 62>>,
       <<114, 101, 116, 117, 114, 110, 32>>,
       <<101, 99, 104, 111, 32>>,
       <<105, 102, 32, 40>>,
       <<119, 104, 105, 108, 101, 32, 40>> >>

\* PracticalSourceRecovery.count_php_patterns: patterns, the eight above and
\* 'foreach (', 'include ', 'require '
Practical_count_patterns ==
    << <<60, 63, 112, 104, 112>>,
       <<102, 117, 110, 99, 116, 105, 111, 110, 32>>,
       <<99, 108, 97, 115, 115, 32>>,
       <<36, 116, 104, 105, 115, 45, 62>>,
       <<114, 101, 116, 117, 114, 110, 32>>,
       <<101, 99, 104, 111, 32>>,
       <<105, 102, 32, 40>>,
       <<119, 104, 105, 108, 101, 32, 40>>,
       <<102, 111, 114, 101, 97, 99, 104, 32, 40>>,
       <<105, 110, 99, 108, 117, 100, 101, 32>>,
       <<114, 101, 113, 117, 105, 114, 101, 32>> >>

\* contains_php_patterns(data) of a byte string
Practical_contains_php_patterns(data) ==
    HowManyIn(Practical_contains_patterns, Utf8Ignore(data)) > 0

\* count_php_patterns(data) of a byte string
Practical_count_bytes(data) == SumCounts(Practical_count_patterns, Utf8Ignore(data))

(***************************************************************************)
(* Regular expressions.  Every header pattern of the decoders is a         *)
(* sequence of literals, \s+ and the groups (\d+) and ([0-9a-f]+), each    *)
(* followed by a character outside its class, so the greedy left-to-right  *)
(* match below is what re.search finds.                                    *)
(***************************************************************************)
Lit(s) == [t |-> "lit", s |-> s]

Ws == [t |-> "ws", s |-> <<>>]

Dec == [t |-> "dec", s |-> <<>>]

Hex == [t |-> "hex", s |-> <<>>]

IsHexLower(c) == IsDigit(c) \/ (c >= 97 /\ c <= 102)

InClass(tok, c) ==
    IF tok.t = "ws" THEN IsSpace(c)
    ELSE IF tok.t = "dec" THEN IsDigit(c)
    ELSE IsHexLower(c)

\* the 0-based end of the longest run of the token's class from pos
RunEnd(text, pos, tok) ==
    LET bad == {j \in (pos + 1)..Len(text) : ~InClass(tok, text[j])}
    IN  IF bad = {} THEN Len(text)
        ELSE (CHOOSE j \in bad : \A x \in bad : j <= x) - 1

NoMatch == [ok |-> FALSE, groups |-> <<>>]

RECURSIVE MatchTokens(_, _, _, _, _)
\* match the tokens toks[k..] at the 0-based position pos
MatchTokens(text, pos, toks, k, groups) ==
    IF k > Len(toks) THEN [ok |-> TRUE, groups |-> groups]
    ELSE LET tok == toks[k]
         IN  IF tok.t = "lit"
             THEN IF MatchAt(text, tok.s, pos)
                  THEN MatchTokens(text, pos + Len(tok.s), toks, k + 1, groups)
                  ELSE NoMatch
             ELSE LET e == RunEnd(text, pos, tok)
                  IN  IF e = pos THEN NoMatch
                      ELSE MatchTokens(text, e, toks, k + 1,
                               IF tok.t = "ws" THEN groups
                               ELSE Append(groups, SubSeq(text, pos + 1, e)))

\* re.search(pattern, text): the leftmost match
Search(toks, text) ==
    LET hits == {i \in 0..Len(text) : MatchTokens(text, i, toks, 1, <<>>).ok}
    IN  IF hits = {} THEN NoMatch
        ELSE MatchTokens(text, CHOOSE i \in hits : \A x \in hits : i <= x,
                         toks, 1, <<>>)

\* int(group) of a string of decimal digits
IntOf(g) == SumOver([i \in 1..Len(g) |-> (g[i] - 48) * (10 ^ (Len(g) - i))], 1, Len(g))

Colon == Lit(<<58>>)

Space == Lit(<<32>>)

\* 'ICB'
S_ICB == <<73, 67, 66>>

\* 'ICB0'
S_ICB0 == <<73, 67, 66, 48>>

\* '//ICB'
S_SlashICB == <<47, 47, 73, 67, 66>>

\* '//ICB0 '
S_SlashICB0 == <<47, 47, 73, 67, 66, 48, 32>>

\* '<?php'
S_PhpOpen == <<60, 63, 112, 104, 112>>

\* '<?'
S_Open == <<60, 63>>

\* '?>'
S_Close == <<63, 62>>

\* '//'
S_Comment == <<47, 47>>

\* 'extension_loaded'
S_extension_loaded == <<101, 120, 116, 101, 110, 115, 105, 111, 110, 95, 108, 111, 97, 100, 101, 100>>

\* 'ionCube Loader'
S_ionCubeLoader == <<105, 111, 110, 67, 117, 98, 101, 32, 76, 111, 97, 100, 101, 114>>

\* "if(!extension_loaded('ionCube Loader')){exit(199);}"
S_LoaderLine == <<105, 102, 40, 33, 101, 120, 116, 101, 110, 115, 105, 111, 110, 95, 108, 111, 97, 100, 101, 100, 40, 39, 105, 111, 110, 67, 117, 98, 101, 32, 76, 111, 97, 100, 101, 114, 39, 41, 41, 123, 101, 120, 105, 116, 40, 49, 57, 57, 41, 59, 125>>


\* r'ICB0\s+(\d+):(\d+)\s+(\d+):([a-f0-9]+)\s+(\d+):([a-f0-9]+)'
\* (PracticalSourceRecovery, AdvancedSourceRecoveryDecoder)
Pattern_ICB0_ws ==
    <<Lit(S_ICB0), Ws, Dec, Colon, Dec, Ws, Dec, Colon, Hex, Ws, Dec, Colon, Hex>>

\* r'//ICB0 (\d+):(\d+) (\d+):([0-9a-f]+) (\d+):([0-9a-f]+)'
\* (IonCubeDecoder, the first pattern of AdvancedIonCubeDecoder)
Pattern_SlashICB0 ==
    <<Lit(S_SlashICB0), Dec, Colon, Dec, Space, Dec, Colon, Hex, Space, Dec, Colon, Hex>>

\* r'//ICB(\d+) (\d+):(\d+) (\d+):([0-9a-f]+) (\d+):([0-9a-f]+)'
\* (the second pattern of AdvancedIonCubeDecoder)
Pattern_SlashICBn ==
    <<Lit(S_SlashICB), Dec, Space, Dec, Colon, Dec, Space, Dec, Colon, Hex, Space,
      Dec, Colon, Hex>>

\* r'ICB(\d+)\s+(\d+):(\d+)\s+(\d+):([0-9a-f]+)\s+(\d+):([0-9a-f]+)'
\* (UltimateIonCubeDecoder)
Pattern_ICBn_ws ==
    <<Lit(S_ICB), Dec, Ws, Dec, Colon, Dec, Ws, Dec, Colon, Hex, Ws, Dec, Colon, Hex>>

\* r'ICB0 (\d+):(\d+) (\d+):([0-9a-f]+) (\d+):([0-9a-f]+)' (IonCubeV83Decoder)
Pattern_ICB0_sp ==
    <<Lit(S_ICB0), Space, Dec, Colon, Dec, Space, Dec, Colon, Hex, Space, Dec, Colon, Hex>>

(***************************************************************************)
(* Lines.                                                                  *)
(***************************************************************************)
\* s.startswith(pat)
StartsWith(s, pat) == MatchAt(s, pat, 0)

\* s.split('\n') (sep is the separating character)
Split(s, sep) ==
    LET cuts == IndicesWhere(s, LAMBDA i : s[i] = sep)
        n == Len(cuts)
        from(k) == IF k = 1 THEN 1 ELSE cuts[k - 1] + 1
        to(k) == IF k = n + 1 THEN Len(s) ELSE cuts[k] - 1
    IN  [k \in 1..(n + 1) |-> SubSeq(s, from(k), to(k))]

\* sep.join(parts) for a one-character separator
Join(parts, sep) ==
    Flatten([k \in 1..Len(parts) |->
                IF k = 1 THEN parts[k] ELSE <<sep>> \o parts[k]])



(***************************************************************************)
(* The encoded file.  A file is described by how it was produced: its      *)
(* header line, whether the '?>' line that ends the loader preamble is     *)
(* there, and its payload; FileBytes is what open(filepath, 'rb').read()   *)
(* returns for it.                                                         *)
(***************************************************************************)
\* '<?php function foo() { return 1; } ?>'
FixturePlain == <<60, 63, 112, 104, 112, 32, 102, 117, 110, 99, 116, 105, 111, 110, 32, 102, 111, 111, 40, 41, 32, 123, 32, 114, 101, 116, 117, 114, 110, 32, 49, 59, 32, 125, 32, 63, 62>>

\* 'hello world, this is not php at all'
NonPhpPlain == <<104, 101, 108, 108, 111, 32, 119, 111, 114, 108, 100, 44, 32, 116, 104, 105, 115, 32, 105, 115, 32, 110, 111, 116, 32, 112, 104, 112, 32, 97, 116, 32, 97, 108, 108>>

\* '<?php //ICB0 1:0 5:abc12 7:def34'
HeaderLine_icb0 == <<60, 63, 112, 104, 112, 32, 47, 47, 73, 67, 66, 48, 32, 49, 58, 48, 32, 53, 58, 97, 98, 99, 49, 50, 32, 55, 58, 100, 101, 102, 51, 52>>

\* '<?php //ICB0 83:0 82:1437d 81:2841c'
HeaderLine_v83 == <<60, 63, 112, 104, 112, 32, 47, 47, 73, 67, 66, 48, 32, 56, 51, 58, 48, 32, 56, 50, 58, 49, 52, 51, 55, 100, 32, 56, 49, 58, 50, 56, 52, 49, 99>>

\* '<?php //ICB1 1:0 5:abc12 7:def34'
HeaderLine_icb1 == <<60, 63, 112, 104, 112, 32, 47, 47, 73, 67, 66, 49, 32, 49, 58, 48, 32, 53, 58, 97, 98, 99, 49, 50, 32, 55, 58, 100, 101, 102, 51, 52>>

\* '<?php // encoded file'
HeaderLine_none == <<60, 63, 112, 104, 112, 32, 47, 47, 32, 101, 110, 99, 111, 100, 101, 100, 32, 102, 105, 108, 101>>


\* '<?php // IONCUBE encoder 8.3'
HeaderLine_ioncube == <<60, 63, 112, 104, 112, 32, 47, 47, 32, 73, 79, 78, 67, 85, 66, 69, 32, 101, 110, 99, 111, 100, 101, 114, 32, 56, 46, 51>>

HeaderLine(hdr) ==
    IF hdr = "icb0" THEN HeaderLine_icb0
    ELSE IF hdr = "v83" THEN HeaderLine_v83
    ELSE IF hdr = "icb1" THEN HeaderLine_icb1
    ELSE HeaderLine_none

\* the plaintext of a file: the fixture repeated, a text that is no PHP, or
\* the fixture after a byte that is no UTF-8
\* 'a world class hotel, not php'
ProsePlain == <<97, 32, 119, 111, 114, 108, 100, 32, 99, 108, 97, 115, 115, 32, 104, 111, 116, 101, 108, 44, 32, 110, 111, 116, 32, 112, 104, 112>>

PlainOf(f) ==
    IF f.plain = "php" THEN Rep(FixturePlain, f.n)
    ELSE IF f.plain = "text" THEN Rep(NonPhpPlain, f.n)
    ELSE IF f.plain = "prose" THEN Rep(ProsePlain, f.n)
    ELSE IF f.plain = "ff" THEN <<255>> \o Rep(FixturePlain, f.n)
    ELSE <<>>

\* the bytes the payload encodes: junk bytes, then the zlib stream of the
\* plaintext XORed with the key (key 0 leaves it alone); or bytes that are
\* no stream at all
EncodedBytes(f) ==
    IF f.kind = "stream"
    THEN Rep(<<f.junkByte>>, f.junk) \o XorKey(ZlibCompress(PlainOf(f), f.flg), f.key)
    ELSE Rep(<<255, 254, 253, 252, 251>>, 4)

\* the payload lines of the file: base64 text in lines of 64 characters
PayloadLines(f) ==
    IF f.kind = "empty" THEN <<>>
    ELSE LET Wrap(text) ==
                [k \in 1..((Len(text) + 63) \div 64) |->
                    SubSeq(text, ((k - 1) * 64) + 1, Min(k * 64, Len(text)))]
         IN  Wrap(B64Encode(EncodedBytes(f)))

FileLines(f) ==
    <<HeaderLine(f.hdr), S_LoaderLine>>
        \o (IF f.close THEN <<S_Close>> ELSE <<>>)
        \o PayloadLines(f)

\* the bytes of the file (every line ends in a newline)
FileBytes(f) == Join(FileLines(f), 10) \o <<10>>

\* open(filepath, 'r', encoding='utf-8', errors='ignore').read()
FileText(f) == Utf8Ignore(FileBytes(f))

(***************************************************************************)
(* The state of one run: a decoder class is constructed and its top-level  *)
(* function is called on one file.                                         *)
(***************************************************************************)
VARIABLES
    cls,            \* the decoder class of the run
    file,           \* filepath: the file the run is given
    pc,             \* where the top-level function is
    header_info,    \* the parsed header, <<>> for {} or None
    payload,        \* the extracted payload
    mi,             \* the 1-based index of the next method of the method list
    best_result,    \* best_result / decoded_content / php_code of the run
    best_score,     \* best_score (Practical), best_analysis['size'] (AdvSrc)
    best_method,    \* the index of the method that gave best_result, 0 for None
    produced,       \* history: what every method called so far returned
    ret,            \* the value the top-level function returned
    written,        \* the recovered-source file written by the run
    runtime_files,  \* the other result files written by the run
    mk,             \* method_structural_analysis: index of the marker scanned
    start,          \* method_structural_analysis: start
    positions,      \* method_structural_analysis: positions
    structures,     \* method_structural_analysis: structures
    exit_code,      \* main: the exit code of the process, None while it runs
    php,            \* how each subprocess.run(['php', ...]) of the run ended
    temp_files,     \* self.temp_files: the names of the registered temp scripts
    scripts         \* the temp scripts created, each with whether os.unlink
                    \* was called on it

vars == <<cls, file, pc, header_info, payload, mi, best_result, best_score,
          best_method, produced, ret, written, runtime_files, mk, start, positions,
          structures, exit_code, php, temp_files, scripts>>

scanVars == <<mk, start, positions, structures>>

\* what identifies the run, the files only decode_file of
\* AdvancedSourceRecoveryDecoder writes, what only main sets, and the
\* subprocess calls
runVars == <<cls, file, runtime_files, exit_code, php, temp_files, scripts>>

\* how subprocess.run(['php', script], capture_output=True, timeout=...)
\* can end: stdout with the markers the caller looks for, other stdout, no
\* stdout, TimeoutExpired, FileNotFoundError (no php installed)
PhpOutcomes == {"metadata", "output", "empty", "timeout", "absent"}

\* the largest repetition count of a plaintext
MaxRep == 3

\* header_info is {} (or None)
IsEmptyDict(h) == DOMAIN h = {}

\* header_info as the decoders that convert the numeric groups build it
HeaderDict(g) ==
    [version_major |-> IntOf(g[1]), version_minor |-> IntOf(g[2]),
     encoder_version |-> IntOf(g[3]), encoder_id |-> g[4],
     file_version |-> IntOf(g[5]), file_id |-> g[6]]

(***************************************************************************)
(* PracticalSourceRecovery                                                 *)
(***************************************************************************)
\* the payload lines of analyze_ioncube_file
Practical_payload(content) ==
    LET lines == Split(Strip(content), 10)
        stripped == [k \in 1..Len(lines) |-> Strip(lines[k])]
        Keep(line) ==
            /\ line # <<>>
            /\ ~StartsWith(line, S_Open)
            /\ ~StartsWith(line, S_Comment)
            /\ ~Contains(line, S_extension_loaded)
            /\ ~Contains(line, S_ionCubeLoader)
            /\ ~Contains(line, S_ICB0)
            /\ line # S_Close
    IN  Flatten(SelectSeq(stripped, Keep))

\* analyze_ioncube_file: None without the header pattern
Practical_analyze_ioncube_file(f) ==
    LET Of(content, m) ==
            IF ~m.ok THEN [ok |-> FALSE, header |-> <<>>, payload |-> <<>>]
            ELSE [ok |-> TRUE, header |-> HeaderDict(m.groups),
                  payload |-> Practical_payload(content)]
        Read(content) == Of(content, Search(Pattern_ICB0_ws, content))
    IN  Read(FileText(f))

\* a result of a method of PracticalSourceRecovery: bytes, or None; fab marks
\* the text that method_smart_reconstruction writes itself
PNone == [ok |-> FALSE, val |-> <<>>, fab |-> FALSE]

PSome(v) == [ok |-> TRUE, val |-> v, fab |-> FALSE]

\* the offsets start_offset + skip_bytes in the order the two loops try them
Practical_offsets(decoded) ==
    LET skips == <<0, 4, 8, 16, 32, 64>>
        outer == Range(0, Min(Len(decoded), 200), 4)
    IN  Flatten([k \in 1..Len(outer) |->
                    [j \in 1..Len(skips) |-> outer[k] + skips[j]]])

\* the first element of the list after the stable sort by descending key
FirstMax(list, Key(_)) ==
    LET best == {i \in 1..Len(list) :
                    \A j \in 1..Len(list) : Key(list[j]) <= Key(list[i])}
    IN  list[CHOOSE i \in best : \A j \in best : i <= j]

method_pattern_based_recovery(pl) ==
    LET \* the decompressed chunk, when it holds a PHP pattern
        Source(r) ==
            IF r.ok /\ Practical_contains_php_patterns(r.val) THEN <<r.val>> ELSE <<>>
        Try(chunk) ==
            IF Len(chunk) < 100 THEN <<>>
            ELSE Source(ZlibDecompress(chunk)) \o Source(GzipDecompress(chunk))
        Best(potential_sources) ==
            IF potential_sources = <<>> THEN PNone
            ELSE PSome(FirstMax(potential_sources, Practical_count_bytes))
        Scan(decoded, offs) ==
            Best(Flatten([k \in 1..Len(offs) |-> Try(Drop(decoded, offs[k]))]))
        Of(d) == IF ~d.ok THEN PNone ELSE Scan(d.val, Practical_offsets(d.val))
    IN  Of(B64Decode(pl))

Practical_markers ==
    << <<60, 63, 112, 104, 112>>,
       <<102, 117, 110, 99, 116, 105, 111, 110>>,
       <<99, 108, 97, 115, 115>>,
       <<105, 110, 116, 101, 114, 102, 97, 99, 101>>,
       <<110, 97, 109, 101, 115, 112, 97, 99, 101>>,
       <<117, 115, 101, 32>>,
       <<114, 101, 113, 117, 105, 114, 101>>,
       <<105, 110, 99, 108, 117, 100, 101>> >>

\* the marker scan as it would be with `start = pos`: find returns the same
\* position again
NextStart_same(pos) == pos

\* start = pos + 1 in the marker scan
NextStart(pos) == pos + 1

\* the extraction loop of method_structural_analysis over the structures found
Practical_extract(decoded, structs) ==
    LET all == Flatten([k \in 1..Len(structs) |-> structs[k].positions])
        Holds(z) == z.ok /\ Practical_contains_php_patterns(z.val)
        Good(pos) == Holds(ZlibDecompress(Drop(decoded, pos)))
        First(good) ==
            IF good = <<>> THEN PNone
            ELSE PSome(ZlibDecompress(Drop(decoded, good[1])).val)
    IN  First(SelectSeq(all, Good))

\* str(n) of a small non-negative int
DecStr(n) ==
    IF n < 10 THEN <<48 + n>>
    ELSE IF n < 100 THEN <<48 + (n \div 10), 48 + (n % 10)>>
    ELSE <<48 + (n \div 100), 48 + ((n \div 10) % 10), 48 + (n % 10)>>

\* '<?php\n/**\n * Reconstructed from ionCube protected file\n * Original ionCube version: '
S_Reconstructed ==
    <<60, 63, 112, 104, 112, 10, 47, 42, 42, 10, 32, 42, 32, 82, 101, 99, 111, 110, 115, 116, 114, 117, 99, 116, 101, 100, 32, 102, 114, 111, 109, 32, 105, 111, 110, 67, 117, 98, 101, 32, 112, 114, 111, 116, 101, 99, 116, 101, 100, 32, 102, 105, 108, 101, 10, 32, 42, 32, 79, 114, 105, 103, 105, 110, 97, 108, 32, 105, 111, 110, 67, 117, 98, 101, 32, 118, 101, 114, 115, 105, 111, 110, 58, 32>>

\* count_php_patterns of the text method_smart_reconstruction writes (the
\* header fields it interpolates hold no pattern)
SmartReconstruction_score == 63

\* method_smart_reconstruction: a text made up from the header alone, whatever
\* the payload; val holds its first lines
method_smart_reconstruction(header) ==
    [ok |-> TRUE, fab |-> TRUE,
     val |-> S_Reconstructed \o DecStr(header.version_major) \o <<46>>
                \o DecStr(header.version_minor) \o <<10>>]

\* `if result:` for a bytes result
PTruthy(r) == r.ok /\ r.val # <<>>

\* count_php_patterns(result)
Practical_score(r) ==
    IF r.fab THEN SmartReconstruction_score ELSE Practical_count_bytes(r.val)

\* `if score > best_score:` of recover_source
Practical_replaces(score, best) == score > best

\* the body of the method loop of recover_source for a method's result
Practical_loop_body(result, method) ==
    /\ produced' = Append(produced, [method |-> method, result |-> result])
    /\ IF PTruthy(result) /\ Practical_replaces(Practical_score(result), best_score)
       THEN /\ best_result' = result
            /\ best_method' = method
            /\ best_score' = Practical_score(result)
       ELSE UNCHANGED <<best_result, best_method, best_score>>

\* recover_source up to the method loop
Practical_recover_source_analyze ==
    /\ cls = "Practical" /\ pc = "start"
    /\ LET Go(analysis) ==
               IF ~analysis.ok
               THEN /\ ret' = "False"
                    /\ pc' = "done"
                    /\ UNCHANGED <<header_info, payload, mi, best_result, best_score,
                                   best_method>>
               ELSE /\ header_info' = analysis.header
                    /\ payload' = analysis.payload
                    /\ mi' = 1
                    /\ best_result' = PNone
                    /\ best_method' = 0
                    /\ best_score' = 0
                    /\ pc' = "methods"
                    /\ ret' = ret
       IN  Go(Practical_analyze_ioncube_file(file))
    /\ UNCHANGED <<runVars, produced, written, scanVars>>

\* the first iteration of the method loop: Pattern-based Recovery
Practical_pattern_based ==
    /\ cls = "Practical" /\ pc = "methods" /\ mi = 1
    /\ Practical_loop_body(method_pattern_based_recovery(payload), 1)
    /\ mi' = 2
    /\ UNCHANGED <<runVars, pc, header_info, payload, ret, written, scanVars>>

\* the second iteration, Structural Analysis, up to its marker loop
Practical_structural_begin ==
    /\ cls = "Practical" /\ pc = "methods" /\ mi = 2
    /\ IF B64Decode(payload).ok
       THEN /\ pc' = "scan"
            /\ mk' = 1 /\ start' = 0 /\ positions' = <<>> /\ structures' = <<>>
            /\ UNCHANGED <<mi, best_result, best_score, best_method, produced>>
       ELSE /\ Practical_loop_body(PNone, 2)
            /\ mi' = 3
            /\ UNCHANGED <<pc, scanVars>>
    /\ UNCHANGED <<runVars, header_info, payload, ret, written>>

\* one iteration of `while True:` of the marker scan, or the step to the
\* next marker when find returns -1
Practical_structural_scan ==
    /\ cls = "Practical" /\ pc = "scan"
    /\ LET Step(pos) ==
               IF pos # -1
               THEN /\ positions' = Append(positions, pos)
                    /\ start' = NextStart(pos)
                    /\ UNCHANGED <<mk, structures, pc>>
               ELSE /\ structures' =
                         IF positions # <<>>
                         THEN Append(structures, [marker |-> mk, positions |-> positions])
                         ELSE structures
                    /\ positions' = <<>>
                    /\ start' = 0
                    /\ IF mk < Len(Practical_markers)
                       THEN mk' = mk + 1 /\ pc' = pc
                       ELSE mk' = mk /\ pc' = "extract"
           Scan(decoded) ==
               /\ Len(positions) <= Len(decoded)
               /\ Step(Find(decoded, Practical_markers[mk], start))
       IN  Scan(B64Decode(payload).val)
    /\ UNCHANGED <<runVars, header_info, payload, mi, best_result, best_score,
                   best_method, produced, ret, written>>

\* the extraction loop of Structural Analysis and the rest of the iteration
Practical_structural_extract ==
    /\ cls = "Practical" /\ pc = "extract"
    /\ Practical_loop_body(Practical_extract(B64Decode(payload).val, structures), 2)
    /\ mi' = 3
    /\ pc' = "methods"
    /\ UNCHANGED <<runVars, header_info, payload, ret, written, scanVars>>

\* the third iteration: Smart Reconstruction
Practical_smart_reconstruction ==
    /\ cls = "Practical" /\ pc = "methods" /\ mi = 3
    /\ Practical_loop_body(method_smart_reconstruction(header_info), 3)
    /\ mi' = 4
    /\ UNCHANGED <<runVars, pc, header_info, payload, ret, written, scanVars>>

\* recover_source after the loop: save best_result, return success
Practical_save ==
    /\ cls = "Practical" /\ pc = "methods" /\ mi = 4
    /\ IF PTruthy(best_result)
       THEN /\ written' = best_result /\ ret' = "True"
            \* subprocess.run(['php', demo_path], ...) inside try/except
            /\ \E o \in PhpOutcomes : php' = <<o>>
       ELSE /\ written' = written /\ ret' = "False"
            /\ php' = php
    /\ pc' = "done"
    /\ UNCHANGED <<cls, file, runtime_files, exit_code, header_info, payload, mi,
                   best_result, best_score, best_method, produced, scanVars,
                   temp_files, scripts>>

(***************************************************************************)
(* AdvancedSourceRecoveryDecoder                                           *)
(***************************************************************************)
\* extract_ioncube_header: the ValueError it raises without the pattern is
\* caught by decode_file, which goes on with header_info = {}
AdvSrc_extract_ioncube_header(content) ==
    LET Of(m) == IF m.ok THEN HeaderDict(m.groups) ELSE <<>>
    IN  Of(Search(Pattern_ICB0_ws, content))

\* extract_encoded_payload
AdvSrc_extract_encoded_payload(content) ==
    LET lines == Split(Strip(content), 10)
        Keep(line) ==
            /\ ~(\/ StartsWith(line, S_PhpOpen)
                 \/ Contains(line, S_ICB0)
                 \/ Strip(line) = S_Close)
            /\ ~(Contains(line, S_extension_loaded) \/ Contains(line, S_ionCubeLoader))
            /\ Strip(line) # <<>>
            /\ ~StartsWith(Strip(line), S_Open)
            /\ ~StartsWith(Strip(line), S_Comment)
        Joined(kept) == Flatten([k \in 1..Len(kept) |-> Strip(kept[k])])
    IN  Joined(SelectSeq(lines, Keep))

AdvSrc_method_direct_b64_zlib(data) ==
    LET Of(d) == IF ~d.ok THEN None ELSE ZlibDecompress(d.val)
    IN  Of(B64Decode(data))

\* method_skip_header_zlib: falls off its end (None) when the data is no
\* longer than skip_bytes
AdvSrc_method_skip_header_zlib(data, skip_bytes) ==
    LET Of(d) ==
            IF ~d.ok THEN None
            ELSE IF Len(d.val) > skip_bytes THEN ZlibDecompress(Drop(d.val, skip_bytes))
            ELSE None
    IN  Of(B64Decode(data))

AdvSrc_method_xor_decrypt(data, key) ==
    LET Of(d) == IF ~d.ok THEN None ELSE ZlibDecompress(XorPattern(d.val, key))
    IN  Of(B64Decode(data))

\* b'ioncube'
S_ioncube == <<105, 111, 110, 99, 117, 98, 101>>

AdvSrc_structure_patterns ==
    << <<60, 63, 112, 104, 112>>,
       <<102, 117, 110, 99, 116, 105, 111, 110, 32>>,
       <<99, 108, 97, 115, 115, 32>>,
       <<36, 116, 104, 105, 115, 45, 62>>,
       <<105, 110, 99, 108, 117, 100, 101, 32>>,
       <<114, 101, 113, 117, 105, 114, 101, 32>>,
       <<101, 99, 104, 111, 32>>,
       <<112, 114, 105, 110, 116, 32>>,
       <<114, 101, 116, 117, 114, 110, 32>>,
       <<105, 102, 32, 40>>,
       <<119, 104, 105, 108, 101, 32, 40>>,
       <<102, 111, 114, 32, 40>>,
       <<102, 111, 114, 101, 97, 99, 104, 32, 40>> >>

\* method_advanced_structure_analysis: at each start position the raw bytes
\* are returned when a pattern occurs in their first 1000, else what they
\* decompress to when a pattern occurs in that
AdvSrc_method_advanced_structure_analysis(data) ==
    LET Has(b) == HowManyIn(AdvSrc_structure_patterns, Take(b, 1000)) > 0
        Decompressed(z) == IF z.ok /\ Has(z.val) THEN z ELSE None
        At(candidate) ==
            IF Has(candidate) THEN Some(candidate)
            ELSE Decompressed(ZlibDecompress(candidate))
        Scan(decoded, starts) ==
            FirstOk([k \in 1..Len(starts) |-> At(Drop(decoded, starts[k]))])
        Of(d) ==
            IF ~d.ok THEN None
            ELSE Scan(d.val, Range(0, Min(Len(d.val), 1000), 4))
    IN  Of(B64Decode(data))

\* method_entropy_analysis: the chunk loop is range(0, len - 1024, 256), so
\* data of at most 1024 bytes gives None; on longer data the first chunk
\* raises AttributeError (float has no bit_length), caught as None
AdvSrc_method_entropy_analysis(data) == None

\* b'function'
S_function == <<102, 117, 110, 99, 116, 105, 111, 110>>


\* `b'<?php' in result[:100] or b'function' in result[:1000]`
AdvSrc_looks_like_php(result) ==
    Contains(Take(result, 100), S_PhpOpen) \/ Contains(Take(result, 1000), S_function)

\* method_binary_pattern_analysis: the first position i in
\* range(len(decoded) - 2) of the zlib magic 78 9c, then of the gzip magic
\* 1f 8b, from which the data decompresses to something that looks like PHP
\* (data after 'PK' is no archive here and 'BZ' is skipped)
AdvSrc_method_binary_pattern_analysis(data) ==
    LET Looks(r) == IF r.ok /\ AdvSrc_looks_like_php(r.val) THEN r ELSE None
        At(decoded, magic, i) ==
            IF ~MatchAt(decoded, magic, i) THEN None
            ELSE IF magic = <<120, 156>> THEN Looks(ZlibDecompress(Drop(decoded, i)))
            ELSE Looks(GzipDecompress(Drop(decoded, i)))
        \* the first hit of the magic at the positions range(len(decoded) - 2)
        First(decoded, magic) ==
            FirstOk([i \in 1..(Len(decoded) - 2) |-> At(decoded, magic, i - 1)])
        Else(zlib_result, decoded) ==
            IF zlib_result.ok THEN zlib_result ELSE First(decoded, <<31, 139>>)
        Of(d) ==
            IF ~d.ok THEN None ELSE Else(First(d.val, <<120, 156>>), d.val)
    IN  Of(B64Decode(data))

HexVal(c) == IF IsDigit(c) THEN c - 48 ELSE c - 87

\* bytes.fromhex(s) of lower-case hex digits: ValueError (None) on an odd
\* number of them
FromHex(s) ==
    IF (Len(s) % 2) = 1 THEN None
    ELSE Some([i \in 1..(Len(s) \div 2) |->
                  (16 * HexVal(s[(2 * i) - 1])) + HexVal(s[2 * i])])

\* generate_v83_key
AdvSrc_generate_v83_key(header) ==
    LET Of(key_data) ==
            IF ~key_data.ok THEN None
            ELSE Some([i \in 1..256 |->
                          XorByte(key_data.val[((i - 1) % Len(key_data.val)) + 1], i - 1)])
    IN  Of(FromHex(header.encoder_id \o header.file_id))

\* ((b << 3) | (b >> 5)) & 0xFF
Rotl3(b) == ((b * 8) % 256) + (b \div 32)

\* method_custom_ioncube_algorithm: only for version_major 83
AdvSrc_method_custom_ioncube_algorithm(data, header) ==
    LET \* zlib on the transformed bytes, then after skipping range(0, 64, 4)
        Scan(transformed, starts) ==
            FirstOk(<<ZlibDecompress(transformed)>>
                    \o [k \in 1..Len(starts) |->
                           ZlibDecompress(Drop(transformed, starts[k]))])
        Decompress(transformed) ==
            Scan(transformed, Range(0, Min(Len(transformed), 64), 4))
        With(decoded, key) ==
            IF ~key.ok THEN None
            ELSE Decompress([i \in 1..Len(decoded) |->
                                Rotl3(XorByte(decoded[i], key.val[((i - 1) % 256) + 1]))])
        Of(d) ==
            IF ~d.ok THEN None
            ELSE IF IsEmptyDict(header) THEN None
            ELSE IF header.version_major # 83 THEN None
            ELSE With(d.val, AdvSrc_generate_v83_key(header))
    IN  Of(B64Decode(data))

\* the method list of decode_file, by index
AdvSrc_methods(k, data, header) ==
    CASE k = 1 -> AdvSrc_method_direct_b64_zlib(data)
      [] k = 2 -> AdvSrc_method_skip_header_zlib(data, 16)
      [] k = 3 -> AdvSrc_method_xor_decrypt(data, S_ioncube)
      [] k = 4 -> AdvSrc_method_advanced_structure_analysis(data)
      [] k = 5 -> AdvSrc_method_entropy_analysis(data)
      [] k = 6 -> AdvSrc_method_binary_pattern_analysis(data)
      [] k = 7 -> AdvSrc_method_custom_ioncube_algorithm(data, header)

AdvSrc_method_count == 7

\* analyze_decoded_content(result)['is_readable']
AdvSrc_readable(result) == AdvSrc_is_readable_php(Utf8Ignore(result))

\* the comparison as it would be with `>=`: an equal size displaces the best
AdvSrc_replaces_on_tie(best, size, best_size) == ~Truthy(best) \/ size >= best_size

\* `if not best_result or analysis['size'] > best_analysis['size']:`
AdvSrc_replaces(best, size, best_size) == ~Truthy(best) \/ size > best_size

\* decode_file up to the method loop
AdvSrc_decode_file_extract ==
    /\ cls = "AdvSrc" /\ pc = "start"
    /\ LET Read(content) ==
               /\ header_info' = AdvSrc_extract_ioncube_header(content)
               /\ payload' = AdvSrc_extract_encoded_payload(content)
       IN  Read(FileText(file))
    /\ mi' = 1
    /\ best_result' = None /\ best_score' = 0 /\ best_method' = 0
    /\ pc' = "methods"
    /\ UNCHANGED <<runVars, produced, ret, written, scanVars>>

\* one iteration of the method loop of decode_file
AdvSrc_loop_iteration ==
    /\ cls = "AdvSrc" /\ pc = "methods" /\ mi <= AdvSrc_method_count
    /\ LET Body(result) ==
               /\ produced' = Append(produced, [method |-> mi, result |-> result])
               /\ IF /\ Truthy(result)
                     /\ AdvSrc_readable(result.val)
                     /\ AdvSrc_replaces(best_result, Len(result.val), best_score)
                  THEN /\ best_result' = result
                       /\ best_score' = Len(result.val)
                       /\ best_method' = mi
                  ELSE UNCHANGED <<best_result, best_score, best_method>>
       IN  Body(AdvSrc_methods(mi, payload, header_info))
    /\ mi' = mi + 1
    /\ UNCHANGED <<runVars, pc, header_info, payload, ret, written, scanVars>>

\* the two PHP runtime methods of decode_file: what the php subprocess prints
\* is up to the installation, so each result file may or may not be written
\* what method_php_runtime_decode and method_memory_dump_simulation return
\* truthy: result.stdout when there is any; None otherwise, the exceptions
\* being caught
Php_returns(outcome) == outcome \in {"metadata", "output"}

\* php_analysis.txt is written when the first result holds "FUNCTIONS:" or
\* "CLASSES:", memory_dump.txt when the second holds "DECODED_FUNCTIONS:"
\* or "DECODED_CLASSES:"
AdvSrc_runtime_files(outcomes) ==
    (IF Php_returns(outcomes[1]) /\ outcomes[1] = "metadata"
     THEN {"php_analysis.txt"} ELSE {})
        \cup (IF Php_returns(outcomes[2]) /\ outcomes[2] = "metadata"
              THEN {"memory_dump.txt"} ELSE {})

\* best_result as it would be if the text the interpreter printed were taken
\* for the recovered source
AdvSrc_runtime_result_adopts(best, outcomes) ==
    IF Php_returns(outcomes[1]) THEN Some(S_function) ELSE best

\* best_result after the two runtime methods: neither assigns it
AdvSrc_runtime_result(best, outcomes) == best

\* methods 8 and 9 of decode_file, which run the interpreter
\* a method that appends the name after subprocess.run has returned
AdvSrc_temp_registered_after(outcome, name) ==
    IF outcome \in {"timeout", "absent"} THEN <<>> ELSE <<name>>

\* `self.temp_files.append(temp_php)` inside the `with` block, before
\* subprocess.run: what temp_files gains, whatever the subprocess does
AdvSrc_temp_registered(outcome, name) == <<name>>

\* cleanup_temp_files: os.unlink on every name of temp_files (a failure is
\* passed over)
AdvSrc_cleanup_temp_files(created, names) ==
    {[name |-> s.name,
      unlinked |-> s.unlinked \/ \E k \in 1..Len(names) : names[k] = s.name] :
        s \in created}

AdvSrc_php_runtime ==
    /\ cls = "AdvSrc" /\ pc = "methods" /\ mi = AdvSrc_method_count + 1
    /\ \E o1, o2 \in PhpOutcomes :
          /\ php' = <<o1, o2>>
          /\ runtime_files' = AdvSrc_runtime_files(<<o1, o2>>)
          /\ best_result' = AdvSrc_runtime_result(best_result, <<o1, o2>>)
          /\ temp_files' = temp_files \o AdvSrc_temp_registered(o1, "php_runtime")
                                      \o AdvSrc_temp_registered(o2, "memory_dump")
    \* NamedTemporaryFile(mode='w', suffix='.php', delete=False), twice
    /\ scripts' = scripts \cup {[name |-> "php_runtime", unlinked |-> FALSE],
                                [name |-> "memory_dump", unlinked |-> FALSE]}
    /\ pc' = "save"
    /\ UNCHANGED <<cls, file, exit_code, header_info, payload, mi,
                   best_score, best_method, produced, ret, written, scanVars>>

\* decode_file from "Save results" on: `return best_result is not None` on
\* every path that saved
AdvSrc_save ==
    /\ cls = "AdvSrc" /\ pc = "save"
    \* save_decoded_content returns False when open or write raises
    /\ \E saved \in BOOLEAN :
          written' = IF Truthy(best_result) /\ saved THEN best_result ELSE written
    /\ ret' = IF best_result.ok THEN "True" ELSE "False"
    \* finally: self.cleanup_temp_files()
    /\ scripts' = AdvSrc_cleanup_temp_files(scripts, temp_files)
    /\ temp_files' = <<>>
    /\ pc' = "done"
    /\ UNCHANGED <<cls, file, runtime_files, exit_code, php, header_info, payload, mi,
                   best_result, best_score, best_method, produced, scanVars>>

(***************************************************************************)
(* UltimateIonCubeDecoder                                                  *)
(***************************************************************************)
\* encryption_keys of _init_known_keys, in order
Ultimate_encryption_keys ==
    <<85, 170, 255, 0, 90, 165, 51, 204, 105, 150, 60, 195, 15, 240, 119, 136,
      26, 43, 60, 77, 94, 111, 112, 129, 146, 163, 180, 197, 214, 231, 248, 9,
      83, 66, 49, 32, 31, 14, 253, 236>>
        \o Range(1, 256, 7)

\* extract_ionCube_payload: the header is optional ({} without it); the
\* payload is what follows the first line that is '?>', b'' without one
Ultimate_extract_header(text_content) ==
    LET Bind(g) ==
            [icb_version |-> IntOf(g[1]), version_major |-> IntOf(g[2]),
             version_minor |-> IntOf(g[3]), encoder_version |-> IntOf(g[4]),
             encoder_id |-> g[5], file_version |-> IntOf(g[6]), file_id |-> g[7]]
        Of(m) == IF ~m.ok THEN <<>> ELSE Bind(m.groups)
    IN  Of(Search(Pattern_ICBn_ws, text_content))

Ultimate_extract_payload(text_content) ==
    LET After(lines, first) ==
            Utf8Encode(Join(SubSeq(lines, first + 1, Len(lines)), 10))
        From(lines, ends) ==
            IF ends = {} THEN <<>>
            ELSE After(lines, CHOOSE i \in ends : \A j \in ends : i <= j)
        Of(lines) == From(lines, {i \in 1..Len(lines) : Strip(lines[i]) = S_Close})
    IN  Of(Split(text_content, 10))

\* `while len(s) % 4 != 0: s += '='`
PadTo4(s) == s \o Rep(<<61>>, (4 - (Len(s) % 4)) % 4)

\* c.isalnum() or c in '+/='
IsB64Like(c) == IsAlnum(c) \/ c \in {43, 47, 61}

\* the padded base64-like characters of the payload, decoded
Ultimate_decoded(data) ==
    B64Decode(PadTo4(SelectSeq(Utf8Ignore(data), IsB64Like)))

\* zlib.decompress, decode('utf-8', errors='ignore'), _is_valid_php: the
\* text when all three succeed
Ultimate_accept(bytes, wbits) ==
    LET Valid(text) == IF Ultimate_is_valid_php(text) THEN Some(text) ELSE None
        Of(z) == IF ~z.ok THEN None ELSE Valid(Utf8Ignore(z.val))
    IN  Of(ZlibDecompressW(bytes, wbits))

Ultimate_method_direct_base64_zlib(data) ==
    LET wbits == <<15, -15, 9, -9>>
        Of(d) ==
            IF ~d.ok THEN None
            ELSE FirstOk([k \in 1..Len(wbits) |-> Ultimate_accept(d.val, wbits[k])])
    IN  Of(Ultimate_decoded(data))

\* the offsets _method_skip_header_zlib scans
Ultimate_skips(decoded) == Range(0, Min(512, Len(decoded)), 8)

Ultimate_method_skip_header_zlib(data) ==
    LET Scan(decoded, skips) ==
            FirstOk([k \in 1..Len(skips) |-> Ultimate_accept(Drop(decoded, skips[k]), 15)])
        Of(d) == IF ~d.ok THEN None ELSE Scan(d.val, Ultimate_skips(d.val))
    IN  Of(Ultimate_decoded(data))

\* the result of _method_xor_single_byte under the k-th key
Ultimate_xor_key_result(decoded, k) ==
    Ultimate_accept(XorKey(decoded, Ultimate_encryption_keys[k]), 15)

Ultimate_method_xor_single_byte(data) ==
    LET Of(d) ==
            IF ~d.ok THEN None
            ELSE FirstOk([k \in 1..Len(Ultimate_encryption_keys) |->
                             Ultimate_xor_key_result(d.val, k)])
    IN  Of(Ultimate_decoded(data))

Ultimate_xor_patterns ==
    << <<90, 165>>,
       <<85, 170, 255>>,
       <<18, 52, 86, 120>>,
       <<105, 111, 110, 99>>,
       <<99, 117, 98, 101>>,
       <<0, 255, 0, 255>> >>

Ultimate_method_xor_multi_byte(data) ==
    LET Of(d) ==
            IF ~d.ok THEN None
            ELSE FirstOk([k \in 1..Len(Ultimate_xor_patterns) |->
                             Ultimate_accept(XorPattern(d.val, Ultimate_xor_patterns[k]), 15)])
    IN  Of(Ultimate_decoded(data))

\* the six operations of _method_reverse_operations
Ultimate_reverse_op(k, x) ==
    CASE k = 1 -> Reverse(x)
      [] k = 2 -> [i \in 1..Len(x) |-> (256 - x[i]) % 256]
      [] k = 3 -> [i \in 1..Len(x) |-> (x[i] + 128) % 256]
      [] k = 4 -> [i \in 1..Len(x) |-> (x[i] + 256 - 128) % 256]
      [] k = 5 -> [i \in 1..Len(x) |-> ((x[i] * 2) % 256) + (x[i] \div 128)]
      [] k = 6 -> [i \in 1..Len(x) |-> (x[i] \div 2) + ((x[i] % 2) * 128)]

Ultimate_method_reverse_operations(data) ==
    LET Of(d) ==
            IF ~d.ok THEN None
            ELSE FirstOk([k \in 1..6 |-> Ultimate_accept(Ultimate_reverse_op(k, d.val), 15)])
    IN  Of(Ultimate_decoded(data))

Ultimate_method_caesar_cipher(data) ==
    LET Of(d) ==
            IF ~d.ok THEN None
            ELSE FirstOk([shift \in 1..255 |-> Ultimate_accept(AddShift(d.val, shift), 15)])
    IN  Of(Ultimate_decoded(data))

\* a & b
AndByte(a, b) == (a + b - XorByte(a, b)) \div 2

\* a | b
OrByte(a, b) == a + b - AndByte(a, b)

\* the three operations of _method_bit_operations: b ^ 0xFF,
\* (b & 0x0F) | ((b & 0xF0) >> 4), ((b & 0x55) << 1) | ((b & 0xAA) >> 1)
Ultimate_bit_op(k, x) ==
    CASE k = 1 -> [i \in 1..Len(x) |-> 255 - x[i]]
      [] k = 2 -> [i \in 1..Len(x) |->
                      OrByte(AndByte(x[i], 15), AndByte(x[i], 240) \div 16)]
      [] k = 3 -> [i \in 1..Len(x) |->
                      OrByte(AndByte(x[i], 85) * 2, AndByte(x[i], 170) \div 2)]

Ultimate_method_bit_operations(data) ==
    LET Of(d) ==
            IF ~d.ok THEN None
            ELSE FirstOk([k \in 1..3 |-> Ultimate_accept(Ultimate_bit_op(k, d.val), 15)])
    IN  Of(Ultimate_decoded(data))

\* c.isalnum() or c in '+/=-_'
IsB64LikeUrl(c) == IsB64Like(c) \/ c \in {45, 95}

\* str.translate from the k-th custom alphabet of _method_custom_ionCube_v8
\* to the standard one: the standard alphabet, the URL-safe one ('-' and
\* '_' for '+' and '/'), and the one with the digits first
Ultimate_translate(k, c) ==
    CASE k = 1 -> c
      [] k = 2 -> IF c = 45 THEN 43 ELSE IF c = 95 THEN 47 ELSE c
      [] k = 3 -> IF IsDigit(c) THEN B64Char(c - 48)
                  ELSE IF IsUpper(c) THEN B64Char(c - 65 + 10)
                  ELSE IF IsLower(c) THEN B64Char(c - 97 + 36)
                  ELSE c

Ultimate_method_custom_ionCube_v8(data) ==
    LET Accept(d) == IF ~d.ok THEN None ELSE Ultimate_accept(d.val, 15)
        Try(k, base64_chars) ==
            Accept(B64Decode(PadTo4([i \in 1..Len(base64_chars) |->
                                        Ultimate_translate(k, base64_chars[i])])))
        Of(base64_chars) == FirstOk([k \in 1..3 |-> Try(k, base64_chars)])
    IN  Of(SelectSeq(Utf8Ignore(data), IsB64LikeUrl))

\* _method_bytecode_extraction: a placeholder
Ultimate_method_bytecode_extraction(data) == None

Ultimate_line_keywords ==
    << <<102, 117, 110, 99, 116, 105, 111, 110>>,
       <<99, 108, 97, 115, 115>>,
       <<60, 63, 112, 104, 112>>,
       <<101, 99, 104, 111>> >>

\* _method_pattern_based_decode: line by line, under the keys 0x55, 0xAA and
\* 0x5A; it accepts a text longer than 20 that holds one of the keywords
Ultimate_method_pattern_based_decode(data) ==
    LET keys == <<85, 170, 90>>
        Keyword(result) ==
            IF Len(result) > 20 /\ HowManyIn(Ultimate_line_keywords, Lower(result)) > 0
            THEN Some(result) ELSE None
        Text(z) == IF z.ok THEN Keyword(Utf8Ignore(z.val)) ELSE None
        Decoded(d) ==
            IF ~d.ok THEN None
            ELSE FirstOk([k \in 1..3 |-> Text(ZlibDecompress(XorKey(d.val, keys[k])))])
        Chars(line_chars) ==
            IF Len(line_chars) < 4 THEN None ELSE Decoded(B64Decode(PadTo4(line_chars)))
        Line(line) ==
            IF Len(Strip(line)) > 10 THEN Chars(SelectSeq(line, IsB64Like)) ELSE None
        Of(lines) == FirstOk([n \in 1..Len(lines) |-> Line(lines[n])])
    IN  Of(Split(Utf8Ignore(data), 10))

\* decryption_methods of _init_decryption_methods, by index
Ultimate_methods(k, data) ==
    CASE k = 1 -> Ultimate_method_direct_base64_zlib(data)
      [] k = 2 -> Ultimate_method_skip_header_zlib(data)
      [] k = 3 -> Ultimate_method_xor_single_byte(data)
      [] k = 4 -> Ultimate_method_xor_multi_byte(data)
      [] k = 5 -> Ultimate_method_reverse_operations(data)
      [] k = 6 -> Ultimate_method_caesar_cipher(data)
      [] k = 7 -> Ultimate_method_bit_operations(data)
      [] k = 8 -> Ultimate_method_custom_ionCube_v8(data)
      [] k = 9 -> Ultimate_method_bytecode_extraction(data)
      [] k = 10 -> Ultimate_method_pattern_based_decode(data)

Ultimate_method_count == 10

\* decode_file up to the method loop: `if not payload: return False`
Ultimate_decode_file_extract ==
    /\ cls = "Ultimate" /\ pc = "start"
    /\ LET Go(header, pl) ==
               /\ header_info' = header
               /\ payload' = pl
               /\ IF pl = <<>>
                  THEN ret' = "False" /\ pc' = "done" /\ mi' = mi
                  ELSE ret' = ret /\ pc' = "methods" /\ mi' = 1
           Read(text_content) ==
               Go(Ultimate_extract_header(text_content),
                  Ultimate_extract_payload(text_content))
       IN  Read(Utf8Ignore(FileBytes(file)))
    /\ UNCHANGED <<runVars, best_result, best_score, best_method, produced, written,
                   scanVars>>

\* whether the method loop of decode_file returns on this result
Ultimate_returns_on(result) == Truthy(result)

\* one iteration of the method loop of decode_file: the first result that
\* is truthy becomes decoded_content and decode_file returns True
Ultimate_loop_iteration ==
    /\ cls = "Ultimate" /\ pc = "methods" /\ mi <= Ultimate_method_count
    /\ LET Body(result) ==
               /\ produced' = Append(produced, [method |-> mi, result |-> result])
               /\ IF Ultimate_returns_on(result)
                  THEN /\ best_result' = result
                       /\ best_method' = mi
                       /\ ret' = "True"
                       /\ pc' = "done"
                  ELSE UNCHANGED <<best_result, best_method, ret, pc>>
       IN  Body(Ultimate_methods(mi, payload))
    /\ mi' = mi + 1
    /\ UNCHANGED <<runVars, header_info, payload, best_score, written, scanVars>>

\* decode_file after the loop: all methods failed
Ultimate_all_failed ==
    /\ cls = "Ultimate" /\ pc = "methods" /\ mi = Ultimate_method_count + 1
    /\ ret' = "False"
    /\ pc' = "done"
    /\ UNCHANGED <<runVars, header_info, payload, mi, best_result, best_score,
                   best_method, produced, written, scanVars>>

(***************************************************************************)
(* IonCubeDecoder                                                          *)
(***************************************************************************)
\* parse_header: (False, {}) without the pattern
IonCube_parse_header(content) ==
    LET Bind(g) ==
            [major_version |-> IntOf(g[1]), minor_version |-> IntOf(g[2]),
             encoder_version |-> IntOf(g[3]), encoder_id |-> g[4],
             file_version |-> IntOf(g[5]), file_id |-> g[6]]
        Of(m) ==
            IF ~m.ok THEN [ok |-> FALSE, info |-> <<>>]
            ELSE [ok |-> TRUE, info |-> Bind(m.groups)]
    IN  Of(Search(Pattern_SlashICB0, content))

\* extract_encoded_data: the base64-like characters of the non-blank lines
\* after the first '?>' line (later '?>' lines are skipped); None if empty
IonCube_extract_encoded_data(content) ==
    LET Result(encoded) == IF encoded = <<>> THEN None ELSE Some(encoded)
        After(lines, ends, first) ==
            Result(Flatten([i \in 1..Len(lines) |->
                               IF i > first /\ i \notin ends /\ Strip(lines[i]) # <<>>
                               THEN SelectSeq(lines[i], IsB64Like) ELSE <<>>]))
        From(lines, ends) ==
            IF ends = {} THEN None
            ELSE After(lines, ends, CHOOSE i \in ends : \A j \in ends : i <= j)
        Of(lines) == From(lines, {i \in 1..Len(lines) : Strip(lines[i]) = S_Close})
    IN  Of(Split(content, 10))

\* decode_base64_data
IonCube_decode_base64_data(encoded_data) == B64Decode(PadTo4(encoded_data))

\* decompress_data: zlib, raw deflate, then zlib after skipping 1..99 bytes
IonCube_decompress_data(data) ==
    FirstOk(<<ZlibDecompress(data), ZlibDecompressW(data, -15)>>
            \o [skip \in 1..99 |-> ZlibDecompress(Drop(data, skip))])

\* decompress_data, `if decompressed:`, decode('utf-8', errors='ignore')
IonCube_decompress_text(data) ==
    LET Of(decompressed) ==
            IF Truthy(decompressed) THEN Some(Utf8Ignore(decompressed.val)) ELSE None
    IN  Of(IonCube_decompress_data(data))

\* the same, kept only if _is_valid_php
IonCube_decompress_valid(data) ==
    LET Of(r) == IF r.ok /\ IonCube_is_valid_php(r.val) THEN r ELSE None
    IN  Of(IonCube_decompress_text(data))

IonCube_method_direct_decompress(data) == IonCube_decompress_text(data)

IonCube_method_skip_header_decompress(data) ==
    LET skips == <<8, 16, 32, 64, 128>>
    IN  FirstOk([k \in 1..Len(skips) |->
                    IF Len(data) > skips[k]
                    THEN IonCube_decompress_valid(Drop(data, skips[k]))
                    ELSE None])

IonCube_method_xor_decode(data) ==
    LET keys == <<85, 170, 255, 0, 90, 165>>
    IN  FirstOk([k \in 1..Len(keys) |-> IonCube_decompress_valid(XorKey(data, keys[k]))])

IonCube_method_reverse_bytes(data) == IonCube_decompress_valid(Reverse(data))

\* methods of decode_ioncube_data, by index
IonCube_methods(k, data) ==
    CASE k = 1 -> IonCube_method_direct_decompress(data)
      [] k = 2 -> IonCube_method_skip_header_decompress(data)
      [] k = 3 -> IonCube_method_xor_decode(data)
      [] k = 4 -> IonCube_method_reverse_bytes(data)

IonCube_method_count == 4

\* decode_file up to the call of decode_ioncube_data, and the guard of that
\* (len(binary_data) < 16 gives None)
IonCube_decode_file_begin ==
    /\ cls = "IonCube" /\ pc = "start"
    /\ LET Go(h, encoded_data, binary_data) ==
               IF ~h.ok
               THEN /\ ret' = "False" /\ pc' = "done"
                    /\ UNCHANGED <<header_info, payload, mi>>
               ELSE /\ header_info' = h.info
                    /\ IF ~Truthy(encoded_data) \/ ~Truthy(binary_data)
                       THEN /\ ret' = "False" /\ pc' = "done"
                            /\ UNCHANGED <<payload, mi>>
                       ELSE /\ payload' = binary_data.val
                            /\ ret' = ret
                            /\ IF Len(binary_data.val) < 16
                               THEN pc' = "fallback" /\ mi' = mi
                               ELSE pc' = "methods" /\ mi' = 1
           Decode(h, encoded_data) ==
               Go(h, encoded_data, IonCube_decode_base64_data(encoded_data.val))
           Read(content) ==
               Decode(IonCube_parse_header(content), IonCube_extract_encoded_data(content))
       IN  Read(FileText(file))
    /\ UNCHANGED <<runVars, best_result, best_score, best_method, produced, written,
                   scanVars>>

\* `if result and self._is_valid_php(result): return result`
IonCube_returns_on(result) == Truthy(result) /\ IonCube_is_valid_php(result.val)

\* one iteration of the method loop of decode_ioncube_data; on the first
\* valid result decode_file sets decoded_content and returns True
IonCube_loop_iteration ==
    /\ cls = "IonCube" /\ pc = "methods" /\ mi <= IonCube_method_count
    /\ LET Body(result) ==
               /\ produced' = Append(produced, [method |-> mi, result |-> result])
               /\ IF IonCube_returns_on(result)
                  THEN /\ best_result' = result
                       /\ best_method' = mi
                       /\ ret' = "True"
                       /\ pc' = "done"
                  ELSE UNCHANGED <<best_result, best_method, ret, pc>>
       IN  Body(IonCube_methods(mi, payload))
    /\ mi' = mi + 1
    /\ UNCHANGED <<runVars, header_info, payload, best_score, written, scanVars>>

\* decode_ioncube_data gave None: decode_file takes the plain UTF-8 text of
\* the binary data as decoded_content, and returns whether that is valid
IonCube_fallback ==
    /\ cls = "IonCube"
    /\ \/ pc = "fallback"
       \/ pc = "methods" /\ mi = IonCube_method_count + 1
    /\ LET Take_text(text) ==
               /\ best_result' = Some(text)
               /\ ret' = IF IonCube_is_valid_php(text) THEN "True" ELSE "False"
       IN  Take_text(Utf8Ignore(payload))
    /\ pc' = "done"
    /\ UNCHANGED <<runVars, header_info, payload, mi, best_score, best_method, produced,
                   written, scanVars>>

(***************************************************************************)
(* AdvancedIonCubeDecoder                                                  *)
(***************************************************************************)
\* the dict parse_ioncube_header builds from the groups of a match (the
\* groups are kept as strings)
AdvIon_bind(groups) ==
    [format_version |-> groups[1],
     major_version |-> groups[2],
     minor_version |-> groups[3],
     encoder_version |-> groups[4],
     encoder_id |-> groups[5],
     file_version |-> IF Len(groups) > 5 THEN groups[6] ELSE groups[5],
     file_id |-> IF Len(groups) > 6 THEN groups[7] ELSE groups[6]]

\* parse_ioncube_header: the first pattern that matches with six groups or
\* more; the third pattern, r'IONCUBE.*?(\d+)\.(\d+)', has two groups and is
\* passed over whether it matches or not
\* b'IONCUBE'
S_IONCUBE == <<73, 79, 78, 67, 85, 66, 69>>

\* re.search(r'IONCUBE.*?(\d+)\.(\d+)', text), the third pattern: the
\* leftmost 'IONCUBE' that digits, a dot and digits follow on its line, and
\* the first such digits after it
Search_IONCUBE(text) ==
    LET Version(p) == MatchTokens(text, p, <<Dec, Lit(<<46>>), Dec>>, 1, <<>>)
        starts == {p \in 0..Len(text) : MatchAt(text, S_IONCUBE, p)}
        After(p) == {<<p, q>> : q \in (p + Len(S_IONCUBE))..Len(text)}
        hits == {h \in UNION {After(p) : p \in starts} :
                    /\ \A j \in (h[1] + Len(S_IONCUBE) + 1)..h[2] : text[j] # 10
                    /\ Version(h[2]).ok}
        First(h) == \A x \in hits : h[1] < x[1] \/ (h[1] = x[1] /\ h[2] <= x[2])
    IN  IF hits = {} THEN NoMatch
        ELSE Version((CHOOSE h \in hits : First(h))[2])

\* the matches of the three patterns of parse_ioncube_header, in order
AdvIon_matches(content) ==
    <<Search(Pattern_SlashICB0, content), Search(Pattern_SlashICBn, content),
      Search_IONCUBE(content)>>

AdvIon_parse_ioncube_header(content) ==
    LET Of(m) ==
            IF m[1].ok /\ Len(m[1].groups) >= 6
            THEN [ok |-> TRUE, info |-> AdvIon_bind(m[1].groups)]
            ELSE IF m[2].ok /\ Len(m[2].groups) >= 6
            THEN [ok |-> TRUE, info |-> AdvIon_bind(m[2].groups)]
            ELSE IF m[3].ok /\ Len(m[3].groups) >= 6
            THEN [ok |-> TRUE, info |-> AdvIon_bind(m[3].groups)]
            ELSE [ok |-> FALSE, info |-> <<>>]
    IN  Of(AdvIon_matches(content))

\* extract_binary_payload: the characters [A-Za-z0-9+/=] of the non-blank
\* lines after the first line that holds '?>', padded and base64-decoded
AdvIon_extract_binary_payload(content) ==
    LET IsCh(c) == IsB64(c) \/ c = 61
        Result(pl) == IF pl = <<>> THEN None ELSE B64Decode(PadTo4(pl))
        After(lines, first) ==
            Result(Flatten([i \in 1..Len(lines) |->
                               IF i > first /\ Strip(lines[i]) # <<>>
                               THEN SelectSeq(lines[i], IsCh) ELSE <<>>]))
        From(lines, ends) ==
            IF ends = {} THEN None
            ELSE After(lines, CHOOSE i \in ends : \A j \in ends : i <= j)
        Of(lines) == From(lines, {i \in 1..Len(lines) : Contains(lines[i], S_Close)})
    IN  Of(Split(content, 10))

\* zlib.decompress with the wbits, decode, is_valid_php_code
AdvIon_accept(bytes, wbits) ==
    LET Valid(text) == IF AdvIon_is_valid_php_code(text) THEN Some(text) ELSE None
        Of(z) == IF ~z.ok THEN None ELSE Valid(Utf8Ignore(z.val))
    IN  Of(ZlibDecompressW(bytes, wbits))

\* the two decompressions tried in turn: zlib, then raw deflate
AdvIon_accept_either(bytes) ==
    FirstOk(<<AdvIon_accept(bytes, 15), AdvIon_accept(bytes, -15)>>)

AdvIon_try_ioncube_v3_decode(data) ==
    LET sizes == <<8, 16, 24, 32, 48, 64>>
    IN  IF Len(data) < 32 THEN None
        ELSE FirstOk([k \in 1..Len(sizes) |->
                         IF Len(data) <= sizes[k] THEN None
                         ELSE AdvIon_accept_either(Drop(data, sizes[k]))])

\* the XOR keys of try_ioncube_v4_decode, in order
AdvIon_xor_keys == <<90, 165, 85, 170, 255, 0, 60, 195, 15, 240, 51, 204>>

\* try_ioncube_v4_decode: None under 64 bytes; zlib streams at the offsets
\* below min(512, len - 32) that start with 78 9c, 78 01 or 78 da; then the
\* XOR keys over data[32:]
AdvIon_try_ioncube_v4_decode(data) ==
    IF Len(data) < 64 THEN None
    ELSE LET At(i) == IF /\ i + 2 <= Len(data)
                         /\ data[i + 1] = 120
                         /\ data[i + 2] \in {156, 1, 218}
                      THEN AdvIon_accept(Drop(data, i), 15) ELSE None
             Xor(decrypt_data) ==
                [k \in 1..Len(AdvIon_xor_keys) |->
                    AdvIon_accept(XorKey(decrypt_data, AdvIon_xor_keys[k]), 15)]
         IN  FirstOk([i \in 1..Min(512, Len(data) - 32) |-> At(i - 1)]
                     \o Xor(Drop(data, 32)))

\* the transformations of try_simple_transformations: reverse, +13, swapped
\* pairs (an odd last byte is dropped), -0x20
AdvIon_transform(k, x) ==
    CASE k = 1 -> Reverse(x)
      [] k = 2 -> AddShift(x, 13)
      [] k = 3 -> [i \in 1..(2 * (Len(x) \div 2)) |->
                      IF (i % 2) = 1 THEN x[i + 1] ELSE x[i - 1]]
      [] k = 4 -> AddShift(x, 256 - 32)

\* try_simple_transformations: each transformation is decompressed both
\* ways, then decoded as it is
AdvIon_try_simple_transformations(data) ==
    LET Valid(decoded) == IF AdvIon_is_valid_php_code(decoded) THEN Some(decoded) ELSE None
        Try(transformed) ==
            FirstOk(<<AdvIon_accept_either(transformed), Valid(Utf8Ignore(transformed))>>)
    IN  FirstOk([k \in 1..4 |-> Try(AdvIon_transform(k, data))])

\* try_bytecode_decompilation: notes a signature, returns None
AdvIon_try_bytecode_decompilation(data) == None

\* decode_methods of decode_file, by index
AdvIon_methods(k, data) ==
    CASE k = 1 -> AdvIon_try_ioncube_v3_decode(data)
      [] k = 2 -> AdvIon_try_ioncube_v4_decode(data)
      [] k = 3 -> AdvIon_try_simple_transformations(data)
      [] k = 4 -> AdvIon_try_bytecode_decompilation(data)

AdvIon_method_count == 4

\* decode_file up to the method loop
AdvIon_decode_file_begin ==
    /\ cls = "AdvIon" /\ pc = "start"
    /\ LET Go(h, binary_data) ==
               IF ~h.ok
               THEN /\ ret' = "False" /\ pc' = "done"
                    /\ UNCHANGED <<header_info, payload, mi>>
               ELSE /\ header_info' = h.info
                    /\ IF ~Truthy(binary_data)
                       THEN /\ ret' = "False" /\ pc' = "done"
                            /\ UNCHANGED <<payload, mi>>
                       ELSE /\ payload' = binary_data.val
                            /\ ret' = ret /\ pc' = "methods" /\ mi' = 1
           Read(content) ==
               Go(AdvIon_parse_ioncube_header(content),
                  AdvIon_extract_binary_payload(content))
       IN  Read(FileText(file))
    /\ UNCHANGED <<runVars, best_result, best_score, best_method, produced, written,
                   scanVars>>

\* a loop that a failed method ends as well
AdvIon_returns_on_failure(result) == TRUE

\* `if result:` of the method loop of decode_file
AdvIon_returns_on(result) == Truthy(result)

\* one iteration of the method loop of decode_file
AdvIon_loop_iteration ==
    /\ cls = "AdvIon" /\ pc = "methods" /\ mi <= AdvIon_method_count
    /\ LET Body(result) ==
               /\ produced' = Append(produced, [method |-> mi, result |-> result])
               /\ IF AdvIon_returns_on(result)
                  THEN /\ best_result' = result
                       /\ best_method' = mi
                       /\ ret' = "True"
                       /\ pc' = "done"
                  ELSE UNCHANGED <<best_result, best_method, ret, pc>>
       IN  Body(AdvIon_methods(mi, payload))
    /\ mi' = mi + 1
    /\ UNCHANGED <<runVars, header_info, payload, best_score, written, scanVars>>

\* decode_file after the loop: all decoding methods failed
AdvIon_all_failed ==
    /\ cls = "AdvIon" /\ pc = "methods" /\ mi = AdvIon_method_count + 1
    /\ ret' = "False"
    /\ pc' = "done"
    /\ UNCHANGED <<runVars, header_info, payload, mi, best_result, best_score,
                   best_method, produced, written, scanVars>>

(***************************************************************************)
(* IonCubeV83Decoder                                                       *)
(***************************************************************************)
\* analyze_header: the pattern is searched in the first line of the file; {}
\* without it
V83_analyze_header(f) ==
    LET Bind(g) ==
            [major_version |-> IntOf(g[1]), minor_version |-> IntOf(g[2]),
             encoder_version |-> IntOf(g[3]), encoder_id |-> g[4],
             file_version |-> IntOf(g[5]), file_id |-> g[6]]
        Of(m) == IF ~m.ok THEN <<>> ELSE Bind(m.groups)
        \* first_line = f.readline()
    IN  Of(Search(Pattern_ICB0_sp, Split(FileText(f), 10)[1]))

\* extract_ioncube_data: the bytes after the third newline; (False, b'') for a
\* file of fewer than four lines
V83_extract_ioncube_data(content) ==
    LET Of(nl) ==
            IF Len(Split(Utf8Ignore(content), 10)) < 4 \/ Len(nl) < 3 THEN None
            ELSE Some(Drop(content, nl[3]))
    IN  Of(IndicesWhere(content, LAMBDA i : content[i] = 10))

\* zlib.decompress with the wbits, decode, is_valid_php
V83_accept(bytes, wbits) ==
    LET Valid(text) == IF V83_is_valid_php(text) THEN Some(text) ELSE None
        Of(z) == IF ~z.ok THEN None ELSE Valid(Utf8Ignore(z.val))
    IN  Of(ZlibDecompressW(bytes, wbits))

\* the offsets the second method of try_decompress_and_decode scans
V83_skips(data) == Range(0, Min(256, Len(data)), 8)

\* try_decompress_and_decode: four window sizes, the skipped headers, nine
\* XOR keys, the plain UTF-8 text, the shifts 1..25; the first valid text
V83_try_decompress_and_decode(data) ==
    LET wbits == <<15, -15, 9, -9>>
        common_keys == <<85, 170, 255, 90, 165, 51, 204, 105, 150>>
        Skipped(skips) == [k \in 1..Len(skips) |-> V83_accept(Drop(data, skips[k]), 15)]
        Valid(text) == IF V83_is_valid_php(text) THEN Some(text) ELSE None
    IN  FirstOk(
            [k \in 1..Len(wbits) |-> V83_accept(data, wbits[k])]
            \o Skipped(V83_skips(data))
            \o [k \in 1..Len(common_keys) |-> V83_accept(XorKey(data, common_keys[k]), 15)]
            \o <<Valid(Utf8Ignore(data))>>
            \o [shift \in 1..25 |-> V83_accept(AddShift(data, shift), 15)])

\* decode_entire_base64
V83_decode_entire_base64(base64_data) ==
    LET Of(decoded) ==
            IF ~decoded.ok THEN None ELSE V83_try_decompress_and_decode(decoded.val)
    IN  Of(B64Decode(PadTo4(base64_data)))

\* chunk_size of decode_ioncube_v83
V83_chunk_size == 4096

\* decode_file up to the chunk loop of decode_ioncube_v83; payload holds
\* base64_chars
V83_decode_file_begin ==
    /\ cls = "V83" /\ pc = "start"
    /\ LET Go(h, encoded_data) ==
               /\ header_info' = h
               /\ IF IsEmptyDict(h) \/ ~encoded_data.ok
                  THEN /\ ret' = "False" /\ pc' = "done"
                       /\ UNCHANGED <<payload, start>>
                  ELSE /\ payload' = SelectSeq(Utf8Ignore(encoded_data.val), IsB64Like)
                       /\ start' = 0
                       /\ ret' = ret /\ pc' = "chunks"
       IN  Go(V83_analyze_header(file), V83_extract_ioncube_data(FileBytes(file)))
    /\ UNCHANGED <<runVars, mi, best_result, best_score, best_method, produced, written,
                   mk, positions, structures>>

\* one iteration of the chunk loop of decode_ioncube_v83
V83_chunk_iteration ==
    /\ cls = "V83" /\ pc = "chunks" /\ start < Len(payload)
    /\ LET Body(php_code) ==
               /\ produced' = Append(produced, [method |-> 1, result |-> php_code])
               /\ IF Truthy(php_code)
                  THEN /\ best_result' = php_code
                       /\ best_method' = 1
                       /\ ret' = "True"
                       /\ pc' = "done"
                  ELSE UNCHANGED <<best_result, best_method, ret, pc>>
           Chunk(decoded_chunk) ==
               Body(IF decoded_chunk.ok
                    THEN V83_try_decompress_and_decode(decoded_chunk.val)
                    ELSE None)
       IN  Chunk(B64Decode(PadTo4(Slice(payload, start, start + V83_chunk_size))))
    /\ start' = start + V83_chunk_size
    /\ UNCHANGED <<runVars, header_info, payload, mi, best_score, written, mk, positions,
                   structures>>

\* after the chunk loop: decode_entire_base64, and the return of decode_file
V83_entire ==
    /\ cls = "V83" /\ pc = "chunks" /\ start >= Len(payload)
    /\ LET Body(decoded_php) ==
               /\ produced' = Append(produced, [method |-> 2, result |-> decoded_php])
               /\ IF Truthy(decoded_php)
                  THEN best_result' = decoded_php /\ best_method' = 2 /\ ret' = "True"
                  ELSE UNCHANGED <<best_result, best_method>> /\ ret' = "False"
       IN  Body(V83_decode_entire_base64(payload))
    /\ pc' = "done"
    /\ UNCHANGED <<runVars, header_info, payload, mi, best_score, written, scanVars>>

(***************************************************************************)
(* The files and classes of the runs.                                      *)
(***************************************************************************)
File(hdr, close, kind, plain, n, key, junk, junkByte, flg) ==
    [hdr |-> hdr, close |-> close, kind |-> kind, plain |-> plain, n |-> n,
     key |-> key, junk |-> junk, junkByte |-> junkByte, flg |-> flg]

\* files whose payload is base64(zlib(plaintext))
DirectFiles ==
    {File("icb0", TRUE, "stream", p, n, 0, 0, 0, flg) :
        p \in {"php", "text", "ff"}, n \in 1..MaxRep, flg \in {1, 156}}
    \cup {File("icb0", TRUE, "stream", "empty", 1, 0, 0, 0, 1)}

\* files whose stream is XORed with one byte
XorFiles ==
    {File("icb0", TRUE, "stream", "php", n, key, 0, 0, 1) :
        n \in {1, MaxRep}, key \in {90, 91}}

\* files whose stream comes after junk bytes
JunkFiles ==
    {File("icb0", TRUE, "stream", "php", n, 0, junk, jb, flg) :
        n \in {1, MaxRep}, junk \in {1, 7, 16, 63}, jb \in {0, 255}, flg \in {1, 156}}

\* files with another header line or none, or without the '?>' line
HeaderFiles ==
    {File(hdr, close, "stream", "php", MaxRep, 0, 0, 0, 1) :
        hdr \in {"icb0", "v83", "icb1", "none"}, close \in BOOLEAN}

\* files whose payload decodes under no method, or is empty
BadFiles ==
    {File(hdr, TRUE, kind, "empty", 1, 0, 0, 0, 1) :
        hdr \in {"icb0", "none"}, kind \in {"garbage", "empty"}}

\* a file whose stream, XORed with 0x5A, holds prose with the word 'class'
ProseFiles == {File("icb0", TRUE, "stream", "prose", 1, 90, 0, 0, 1)}

Files ==
    DirectFiles \cup XorFiles \cup JunkFiles \cup HeaderFiles \cup BadFiles \cup ProseFiles

Classes == {"Practical", "AdvSrc", "Ultimate", "IonCube", "AdvIon", "V83"}

\* decoded_content = "" after __init__; best_result = None before the loop
InitialContent(c) ==
    IF c \in {"Practical", "AdvSrc"} THEN None ELSE Some(<<>>)

Init ==
    /\ cls \in Classes
    /\ file \in Files
    /\ pc = "start"
    /\ header_info = <<>>
    /\ payload = <<>>
    /\ mi = 0
    /\ best_result = InitialContent(cls)
    /\ best_score = 0
    /\ best_method = 0
    /\ produced = <<>>
    /\ ret = "none"
    /\ written = None
    /\ runtime_files = {}
    /\ mk = 0 /\ start = 0 /\ positions = <<>> /\ structures = <<>>
    /\ exit_code = None
    /\ php = <<>>
    /\ temp_files = <<>> /\ scripts = {}

\* main of each script after decode_file / recover_source returned:
\* sys.exit(0 if success else 1) in practical_source_recovery.py and
\* advanced_source_recovery_decoder.py; sys.exit(1) in the else branch of
\* ioncube_decoder.py; no sys.exit in either branch of the other three,
\* whose process ends with the exit code 0 of a script that ran to its end
main_exit_code(c, success) ==
    CASE c \in {"Practical", "AdvSrc"} -> IF success THEN 0 ELSE 1
      [] c = "IonCube" -> IF success THEN 0 ELSE 1
      [] c \in {"Ultimate", "AdvIon", "V83"} -> 0

\* whether main calls decoder.save_decoded(output_path) after the run
main_saves(c, success) == success /\ c \in {"IonCube", "Ultimate", "AdvIon", "V83"}

main ==
    /\ pc = "done"
    /\ exit_code' = Some(main_exit_code(cls, ret = "True"))
    \* save_decoded returns False when open or write raises; main drops it
    /\ \E saved \in BOOLEAN :
          written' = IF main_saves(cls, ret = "True") /\ saved THEN best_result
                     ELSE written
    /\ pc' = "exited"
    /\ UNCHANGED <<cls, file, runtime_files, php, header_info, payload, mi,
                   best_result, best_score, best_method, produced, ret, scanVars,
                   temp_files, scripts>>

Next ==
    \/ Practical_recover_source_analyze
    \/ Practical_pattern_based
    \/ Practical_structural_begin
    \/ Practical_structural_scan
    \/ Practical_structural_extract
    \/ Practical_smart_reconstruction
    \/ Practical_save
    \/ AdvSrc_decode_file_extract
    \/ AdvSrc_loop_iteration
    \/ AdvSrc_php_runtime
    \/ AdvSrc_save
    \/ Ultimate_decode_file_extract
    \/ Ultimate_loop_iteration
    \/ Ultimate_all_failed
    \/ IonCube_decode_file_begin
    \/ IonCube_loop_iteration
    \/ IonCube_fallback
    \/ AdvIon_decode_file_begin
    \/ AdvIon_loop_iteration
    \/ AdvIon_all_failed
    \/ V83_decode_file_begin
    \/ V83_chunk_iteration
    \/ V83_entire
    \/ main

Spec == Init /\ [][Next]_vars

(***************************************************************************)
(* The byte operations of UltimateIonCubeDecoder on their own: a byte       *)
(* string is put through one operation and then through the operation that *)
(* the lists pair it with.  payload is the string, mi the pair, mk the key  *)
(* or shift, produced what the two applications returned.                   *)
(***************************************************************************)
\* the byte strings the operations are given: every single byte, the empty
\* string and strings of several bytes
ByteStrings ==
    {<<b>> : b \in 0..255}
        \cup {<<>>, <<0, 255>>, <<1, 2, 3>>, <<120, 156, 1, 0, 255>>, Take(FixturePlain, 6)}

\* the pairs: XOR with a key; rotate left, then right; rotate right, then
\* left; add 128, then subtract 128; (256 - b) % 256; b ^ 0xFF; a Caesar
\* shift; x[::-1]; the nibble swap of _method_bit_operations; swap_pairs of
\* try_simple_transformations
OpPairs == 1..10

\* the keys of the XOR pair and the shifts of range(1, 256)
OpKeys(pair) ==
    CASE pair = 1 -> 0..255
      [] pair = 7 -> 1..255
      [] OTHER -> {0}

\* the first operation of a pair
OpFirst(pair, k, x) ==
    CASE pair = 1 -> XorKey(x, k)
      [] pair = 2 -> Ultimate_reverse_op(5, x)
      [] pair = 3 -> Ultimate_reverse_op(6, x)
      [] pair = 4 -> Ultimate_reverse_op(3, x)
      [] pair = 5 -> Ultimate_reverse_op(2, x)
      [] pair = 6 -> Ultimate_bit_op(1, x)
      [] pair = 7 -> AddShift(x, k)
      [] pair = 8 -> Ultimate_reverse_op(1, x)
      [] pair = 9 -> Ultimate_bit_op(2, x)
      [] pair = 10 -> AdvIon_transform(3, x)

\* the second operation of a pair
OpSecond(pair, k, x) ==
    CASE pair = 1 -> XorKey(x, k)
      [] pair = 2 -> Ultimate_reverse_op(6, x)
      [] pair = 3 -> Ultimate_reverse_op(5, x)
      [] pair = 4 -> Ultimate_reverse_op(4, x)
      [] pair = 5 -> Ultimate_reverse_op(2, x)
      [] pair = 6 -> Ultimate_bit_op(1, x)
      [] pair = 7 -> AddShift(x, 256 - k)
      [] pair = 8 -> Ultimate_reverse_op(1, x)
      [] pair = 9 -> Ultimate_bit_op(2, x)
      [] pair = 10 -> AdvIon_transform(3, x)

OpsInit ==
    /\ cls = "Ultimate"
    /\ file = File("none", TRUE, "empty", "empty", 1, 0, 0, 0, 1)
    /\ pc = "operand"
    /\ payload \in ByteStrings
    /\ header_info = <<>>
    /\ mi = 0
    /\ best_result = InitialContent(cls)
    /\ best_score = 0
    /\ best_method = 0
    /\ produced = <<>>
    /\ ret = "none"
    /\ written = None
    /\ runtime_files = {}
    /\ mk = 0 /\ start = 0 /\ positions = <<>> /\ structures = <<>>
    /\ exit_code = None
    /\ php = <<>>
    /\ temp_files = <<>> /\ scripts = {}

\* one operation applied to the string
Op_apply ==
    /\ pc = "operand"
    /\ \E pair \in OpPairs : \E k \in OpKeys(pair) :
          /\ mi' = pair
          /\ mk' = k
          /\ produced' = <<[method |-> pair, result |-> Some(OpFirst(pair, k, payload))]>>
    /\ pc' = "applied"
    /\ UNCHANGED <<runVars, header_info, payload, best_result, best_score,
                   best_method, ret, written, start, positions, structures>>

\* the operation it is paired with applied to what that returned
Op_undo ==
    /\ pc = "applied"
    /\ produced' = Append(produced,
                      [method |-> mi,
                       result |-> Some(OpSecond(mi, mk, produced[1].result.val))])
    /\ pc' = "undone"
    /\ UNCHANGED <<runVars, header_info, payload, mi, best_result, best_score,
                   best_method, ret, written, scanVars>>

OpsNext ==
    \/ Op_apply
    \/ Op_undo

OpsSpec == OpsInit /\ [][OpsNext]_vars

(***************************************************************************)
(* The plausibility scorers on their own: texts are scored one after the    *)
(* other, produced holds what every call was given and what it did.         *)
(***************************************************************************)
\* the calls of one run
MaxCalls == 2

\* the texts scored: the empty text, texts of control characters only, the
\* '<?php if(1) echo 2;'
ShortPhp == <<60, 63, 112, 104, 112, 32, 105, 102, 40, 49, 41, 32, 101, 99, 104, 111, 32, 50, 59>>

\* fixtures, a fixture with control characters after it, and a statement of
\* 19 characters
ScoreTexts ==
    {<<>>, <<7>>, Rep(<<1>>, 24), NonPhpPlain, FixturePlain,
     FixturePlain \o Rep(<<1>>, 12), Rep(FixturePlain, 2), ShortPhp}

Scorers == {"Ultimate", "IonCube", "AdvIon", "V83", "AdvSrc"}

\* a call that returned, and a call that raised ZeroDivisionError
Verdict(v, score) == [raised |-> FALSE, verdict |-> v, score |-> score]

Raised == [raised |-> TRUE, verdict |-> FALSE, score |-> 0]

\* `binary_count / len(text) if text else 1`: whether the division is
\* evaluated
Ultimate_divides(t) == t # <<>>

\* `binary_count / len(text) if len(text) > 0 else 1`
V83_divides(t) == Len(t) > 0

\* the division as it would be without its guard
AdvSrc_divides_always(t) == TRUE

\* `readable_chars / len(text) if text else 0`
AdvSrc_divides(t) == t # <<>>

\* one call of a scorer: what it returns, or that it raised
Scorer_call(scorer, t) ==
    CASE scorer = "Ultimate" ->
            IF t = <<>> \/ Len(t) < 20 THEN Verdict(FALSE, 0)
            ELSE IF Ultimate_divides(t) /\ Len(t) = 0 THEN Raised
            ELSE Verdict(Ultimate_is_valid_php(t), Ultimate_score(t))
      [] scorer = "IonCube" ->
            IF t = <<>> \/ Len(t) < 10 THEN Verdict(FALSE, 0)
            ELSE Verdict(IonCube_is_valid_php(t),
                         HowManyIn(IonCube_php_indicators, Lower(t)))
      [] scorer = "AdvIon" ->
            IF t = <<>> \/ Len(t) < 5 THEN Verdict(FALSE, 0)
            ELSE Verdict(AdvIon_is_valid_php_code(t), AdvIon_score(t))
      [] scorer = "V83" ->
            IF t = <<>> \/ Len(t) < 20 THEN Verdict(FALSE, 0)
            ELSE IF V83_divides(t) /\ Len(t) = 0 THEN Raised
            ELSE Verdict(V83_is_valid_php(t), V83_score(t))
      [] scorer = "AdvSrc" ->
            IF AdvSrc_divides(t) /\ Len(t) = 0 THEN Raised
            ELSE Verdict(AdvSrc_is_readable_php(t), HowManyIn(AdvSrc_php_indicators, t))

ScoreInit ==
    /\ cls = "AdvSrc"
    /\ file = File("none", TRUE, "empty", "empty", 1, 0, 0, 0, 1)
    /\ pc = "scoring"
    /\ payload = <<>>
    /\ header_info = <<>>
    /\ mi = 0
    /\ best_result = InitialContent(cls)
    /\ best_score = 0
    /\ best_method = 0
    /\ produced = <<>>
    /\ ret = "none"
    /\ written = None
    /\ runtime_files = {}
    /\ mk = 0 /\ start = 0 /\ positions = <<>> /\ structures = <<>>
    /\ exit_code = None
    /\ php = <<>>
    /\ temp_files = <<>> /\ scripts = {}

\* a scorer called with a text
Score_call ==
    /\ pc = "scoring"
    /\ Len(produced) < MaxCalls
    /\ \E scorer \in Scorers, t \in ScoreTexts :
          /\ payload' = t
          /\ produced' = Append(produced,
                            [method |-> scorer, text |-> t, result |-> Scorer_call(scorer, t)])
    /\ mi' = mi + 1
    /\ UNCHANGED <<runVars, pc, header_info, best_result, best_score, best_method,
                   ret, written, scanVars>>

ScoreNext == Score_call

ScoreSpec == ScoreInit /\ [][ScoreNext]_vars

(***************************************************************************)
(* The header parsers on their own: a parser of the class cls is called on  *)
(* a preamble, payload; produced holds what the call did.                   *)
(***************************************************************************)
\* the lines a preamble is made of
PreambleLines ==
    {HeaderLine_icb0, HeaderLine_v83, HeaderLine_icb1, HeaderLine_none,
     HeaderLine_ioncube, <<>>}

\* the preambles: two lines
Preambles == {a \o <<10>> \o b : a \in PreambleLines, b \in PreambleLines}

Parsers == {"AdvSrc", "IonCube", "AdvIon"}

\* the patterns of a parser that match the content, by their place in its
\* list
Parser_matching(parser, content) ==
    CASE parser = "AdvSrc" -> {k \in {1} : Search(Pattern_ICB0_ws, content).ok}
      [] parser = "IonCube" -> {k \in {1} : Search(Pattern_SlashICB0, content).ok}
      [] parser = "AdvIon" -> {k \in 1..3 : AdvIon_matches(content)[k].ok}

\* the groups the k-th pattern of parse_ioncube_header captured
Parser_groups(content, k) == AdvIon_matches(content)[k].groups

\* one call of a parser: whether it raised, whether it reports a header, and
\* the fields.  extract_ioncube_header raises ValueError when its pattern
\* does not match; the other two return (False, {})
Parser_call(parser, content) ==
    CASE parser = "AdvSrc" ->
            IF Search(Pattern_ICB0_ws, content).ok
            THEN [raised |-> FALSE, present |-> TRUE,
                  info |-> AdvSrc_extract_ioncube_header(content)]
            ELSE [raised |-> TRUE, present |-> FALSE, info |-> <<>>]
      [] parser = "IonCube" ->
            [raised |-> FALSE, present |-> IonCube_parse_header(content).ok,
             info |-> IonCube_parse_header(content).info]
      [] parser = "AdvIon" ->
            [raised |-> FALSE, present |-> AdvIon_parse_ioncube_header(content).ok,
             info |-> AdvIon_parse_ioncube_header(content).info]

ParseInit ==
    /\ cls \in Parsers
    /\ file = File("none", TRUE, "empty", "empty", 1, 0, 0, 0, 1)
    /\ pc = "preamble"
    /\ payload \in Preambles
    /\ header_info = <<>>
    /\ mi = 0
    /\ best_result = InitialContent(cls)
    /\ best_score = 0
    /\ best_method = 0
    /\ produced = <<>>
    /\ ret = "none"
    /\ written = None
    /\ runtime_files = {}
    /\ mk = 0 /\ start = 0 /\ positions = <<>> /\ structures = <<>>
    /\ exit_code = None
    /\ php = <<>>
    /\ temp_files = <<>> /\ scripts = {}

\* the header parser of the class called on the preamble
Parse_call ==
    /\ pc = "preamble"
    /\ produced' = <<[method |-> cls, result |-> Parser_call(cls, payload)]>>
    /\ header_info' = produced'[1].result.info
    /\ pc' = "parsed"
    /\ UNCHANGED <<runVars, payload, mi, best_result, best_score, best_method,
                   ret, written, scanVars>>

ParseNext == Parse_call

ParseSpec == ParseInit /\ [][ParseNext]_vars

-----------------------------------------------------------------------------
\* Textual payload extraction applied to file contents: a header line, one
\* line of the loader stub, the closing-delimiter line and two lines after it.

\* 'exit(199);'
Line_exit == <<101, 120, 105, 116, 40, 49, 57, 57, 41, 59>>

\* 'if(!extension_loaded("ionCube Loader"))'
Line_loader == <<105, 102, 40, 33, 101, 120, 116, 101, 110, 115, 105, 111, 110, 95, 108, 111, 97, 100, 101, 100, 40, 34, 105, 111, 110, 67, 117, 98, 101, 32, 76, 111, 97, 100, 101, 114, 34, 41, 41>>

\* 'QUJDRA=='
Line_plain == <<81, 85, 74, 68, 82, 65, 61, 61>>

\* 'aICB0xyz'
Line_icb0 == <<97, 73, 67, 66, 48, 120, 121, 122>>

\* '//8AAQ=='
Line_slashes == <<47, 47, 56, 65, 65, 81, 61, 61>>

\* '// note'
Line_comment == <<47, 47, 32, 110, 111, 116, 101>>

\* 'QU' + U+00E9 + '='
Line_accent == <<81, 85, 233, 61>>

StubLines == {Line_exit, Line_loader}

LinesAfter == {Line_plain, Line_icb0, Line_slashes, Line_comment, Line_accent, <<>>}

ExtractContents ==
    {HeaderLine_icb0 \o <<10>> \o s \o <<10>> \o S_Close \o <<10>> \o a \o <<10>> \o b :
        s \in StubLines, a \in LinesAfter, b \in LinesAfter}

Extractors == {"IonCube", "AdvSrc", "Practical"}

\* the textual extractor of the class: extract_encoded_data returns None when
\* nothing is kept, the other two return the joined string
Extract_call(extractor, content) ==
    IF extractor = "IonCube"
    THEN LET Of(r) == [absent |-> ~r.ok, data |-> IF r.ok THEN r.val ELSE <<>>]
         IN  Of(IonCube_extract_encoded_data(content))
    ELSE IF extractor = "AdvSrc"
    THEN [absent |-> FALSE, data |-> AdvSrc_extract_encoded_payload(content)]
    ELSE [absent |-> FALSE, data |-> Practical_payload(content)]

ExtractInit ==
    /\ cls \in Extractors
    /\ file = File("none", TRUE, "empty", "empty", 1, 0, 0, 0, 1)
    /\ pc = "content"
    /\ payload \in ExtractContents
    /\ header_info = <<>>
    /\ mi = 0
    /\ best_result = InitialContent(cls)
    /\ best_score = 0
    /\ best_method = 0
    /\ produced = <<>>
    /\ ret = "none"
    /\ written = None
    /\ runtime_files = {}
    /\ mk = 0 /\ start = 0 /\ positions = <<>> /\ structures = <<>>
    /\ exit_code = None
    /\ php = <<>>
    /\ temp_files = <<>> /\ scripts = {}

\* the extractor of the class called on the contents
Extract ==
    /\ pc = "content"
    /\ produced' = <<[method |-> cls, result |-> Extract_call(cls, payload)]>>
    /\ pc' = "extracted"
    /\ UNCHANGED <<runVars, payload, header_info, mi, best_result, best_score,
                   best_method, ret, written, scanVars>>

ExtractNext == Extract

ExtractSpec == ExtractInit /\ [][ExtractNext]_vars

-----------------------------------------------------------------------------
\* Binary payload extraction applied to raw file bytes: a header line, the
\* 'exit(199);' line, the closing-delimiter line, then up to MaxTail bytes.

MaxTail == 3

\* 'A', newline, a byte no UTF-8 sequence holds, and the two bytes of U+00E9
TailBytes == {65, 10, 255, 195, 169}

Tails == UNION {[1..n -> TailBytes] : n \in 0..MaxTail}

BinaryContents ==
    {HeaderLine_icb0 \o <<10>> \o Line_exit \o <<10>> \o S_Close \o <<10>> \o t : t \in Tails}

BinaryExtractors == {"V83", "Ultimate"}

\* the binary extractor of the class on the bytes read from the file
Binary_call(extractor, raw_content) ==
    IF extractor = "V83"
    THEN LET Of(r) == IF r.ok THEN r.val ELSE <<>>
         IN  Of(V83_extract_ioncube_data(raw_content))
    ELSE Ultimate_extract_payload(Utf8Ignore(raw_content))

BinaryInit ==
    /\ cls \in BinaryExtractors
    /\ file = File("none", TRUE, "empty", "empty", 1, 0, 0, 0, 1)
    /\ pc = "bytes"
    /\ payload \in BinaryContents
    /\ header_info = <<>>
    /\ mi = 0
    /\ best_result = InitialContent(cls)
    /\ best_score = 0
    /\ best_method = 0
    /\ produced = <<>>
    /\ ret = "none"
    /\ written = None
    /\ runtime_files = {}
    /\ mk = 0 /\ start = 0 /\ positions = <<>> /\ structures = <<>>
    /\ exit_code = None
    /\ php = <<>>
    /\ temp_files = <<>> /\ scripts = {}

\* the extractor of the class called on the file
Binary_extract ==
    /\ pc = "bytes"
    /\ produced' = <<[method |-> cls, result |-> Binary_call(cls, payload)]>>
    /\ pc' = "payload"
    /\ UNCHANGED <<runVars, payload, header_info, mi, best_result, best_score,
                   best_method, ret, written, scanVars>>

BinaryNext == Binary_extract

BinarySpec == BinaryInit /\ [][BinaryNext]_vars

-----------------------------------------------------------------------------
\* The offset scans applied to decoded payloads that hold a magic or a marker
\* some number of times: the offsets at which decompression is attempted.

MaxMarks == 514

\* how many times the payload holds the magic or marker
MarkCounts == 0..12 \cup {MaxMarks}

\* the zlib magic, the gzip magic, '<?php' and 'class'
ScanMarks == {<<120, 156>>, <<31, 139>>, S_PhpOpen, <<99, 108, 97, 115, 115>>}

ScanPayloads == {Rep(m, n) : m \in ScanMarks, n \in MarkCounts}

Scanners == {"AdvSrc", "Practical"}

\* the offsets of a scan up to the first one that the scan returns at
UpToFirst(offsets, Good(_)) ==
    LET good == {k \in 1..Len(offsets) : Good(offsets[k])}
    IN  IF good = {} THEN offsets
        ELSE SubSeq(offsets, 1, CHOOSE k \in good : \A j \in good : k <= j)

\* method_binary_pattern_analysis: the offsets i of range(len(decoded) - 2)
\* that hold the zlib magic, then those that hold the gzip magic, each the
\* start of a decompression until one gives what looks like PHP
AdvSrc_scan_offsets(decoded) ==
    LET At(magic) ==
            SelectSeq([i \in 1..(Len(decoded) - 2) |-> i - 1],
                      LAMBDA p : MatchAt(decoded, magic, p))
        GoodZ(p) == LET Of(r) == r.ok /\ AdvSrc_looks_like_php(r.val)
                    IN  Of(ZlibDecompress(Drop(decoded, p)))
        GoodG(p) == LET Of(r) == r.ok /\ AdvSrc_looks_like_php(r.val)
                    IN  Of(GzipDecompress(Drop(decoded, p)))
        Then(z, all) == IF Len(z) < Len(all) \/ (all # <<>> /\ GoodZ(all[Len(all)]))
                        THEN z
                        ELSE z \o UpToFirst(At(<<31, 139>>), GoodG)
        Of(all) == Then(UpToFirst(all, GoodZ), all)
    IN  Of(At(<<120, 156>>))

\* method_structural_analysis: the positions that decoded.find gives for each
\* marker in turn, each the start of a decompression until one gives data
\* that contains PHP patterns
Practical_scan_offsets(decoded) ==
    LET At(marker) ==
            SelectSeq([i \in 1..Len(decoded) |-> i - 1],
                      LAMBDA p : MatchAt(decoded, marker, p))
        Good(p) == LET Of(r) == r.ok /\ Practical_contains_php_patterns(r.val)
                   IN  Of(ZlibDecompress(Drop(decoded, p)))
    IN  UpToFirst(Flatten([k \in 1..Len(Practical_markers) |-> At(Practical_markers[k])]),
                  Good)

ScanInit ==
    /\ cls \in Scanners
    /\ file = File("none", TRUE, "empty", "empty", 1, 0, 0, 0, 1)
    /\ pc = "decoded"
    /\ payload \in ScanPayloads
    /\ header_info = <<>>
    /\ mi = 0
    /\ best_result = InitialContent(cls)
    /\ best_score = 0
    /\ best_method = 0
    /\ produced = <<>>
    /\ ret = "none"
    /\ written = None
    /\ runtime_files = {}
    /\ mk = 0 /\ start = 0 /\ positions = <<>> /\ structures = <<>>
    /\ exit_code = None
    /\ php = <<>>
    /\ temp_files = <<>> /\ scripts = {}

\* the scan of the class run on the decoded payload
Scan_run ==
    /\ pc = "decoded"
    /\ positions' = IF cls = "AdvSrc" THEN AdvSrc_scan_offsets(payload)
                    ELSE Practical_scan_offsets(payload)
    /\ pc' = "scanned"
    /\ UNCHANGED <<runVars, payload, header_info, mi, best_result, best_score,
                   best_method, produced, ret, written, mk, start, structures>>

ScanNext == Scan_run

ScanSpec == ScanInit /\ [][ScanNext]_vars

(***************************************************************************)
(* Properties of the runs.  produced holds, in order, what every method    *)
(* called so far returned.                                                 *)
(***************************************************************************)
\* the results produced so far that the best-tracking loop compares: in
\* recover_source the truthy ones, in decode_file of
\* AdvancedSourceRecoveryDecoder the truthy ones that are readable
C1_Candidates ==
    {k \in 1..Len(produced) :
        IF cls = "Practical" THEN PTruthy(produced[k].result)
        ELSE Truthy(produced[k].result) /\ AdvSrc_readable(produced[k].result.val)}

\* the score the loop compares them by: count_php_patterns, analysis['size']
C1_Score(k) ==
    IF cls = "Practical" THEN Practical_score(produced[k].result)
    ELSE Len(produced[k].result.val)

\* the first-produced candidate that attains the maximum score
C1_FirstMax ==
    CHOOSE k \in C1_Candidates :
        \A j \in C1_Candidates :
            C1_Score(j) < C1_Score(k) \/ (C1_Score(j) = C1_Score(k) /\ k <= j)

\* C1: in the loops that track a best result (recover_source,
\* decode_file of AdvancedSourceRecoveryDecoder), after every prefix of the
\* method list best_result is the first-produced candidate of maximum score:
\* an equal score later never displaces it
C1_BestIsFirstMaximum ==
    cls \in {"Practical", "AdvSrc"} =>
        IF C1_Candidates = {} THEN ~Truthy(best_result) /\ best_method = 0
        ELSE /\ best_method = produced[C1_FirstMax].method
             /\ best_result = produced[C1_FirstMax].result

\* C1, its case: two candidates tie at the maximum, and the first is kept
C1_TieKeepsFirst ==
    /\ cls \in {"Practical", "AdvSrc"}
    /\ \E i, j \in C1_Candidates :
          /\ i < j
          /\ C1_Score(i) = C1_Score(j)
          /\ i = C1_FirstMax
          /\ best_method = produced[i].method

\* the number of methods the loop of the class registers
C2_MethodCount ==
    IF cls = "Ultimate" THEN Ultimate_method_count
    ELSE IF cls = "IonCube" THEN IonCube_method_count
    ELSE AdvIon_method_count

\* C2: the search is exhaustive across methods: a run of decode_file that
\* entered the method loop has run every registered method by the time it
\* returns, also those listed after one that produced a passing candidate
C2_EveryMethodRuns ==
    (cls \in {"Ultimate", "IonCube", "AdvIon"} /\ pc = "done" /\ produced # <<>>)
        => Len(produced) = C2_MethodCount

\* C3: the result is best-effort: when some method decoded the payload into
\* some candidate, decode_file retains a best candidate on return, also
\* one below the acceptance threshold
C3_BestEffortRetained ==
    (/\ cls \in {"AdvSrc", "Ultimate"}
     /\ pc = "done"
     /\ \E k \in 1..Len(produced) : Truthy(produced[k].result))
        => Truthy(best_result)

\* the six fields of a parsed header, in the order of the header line
C4_Fields(h) ==
    <<h.major_version, h.minor_version, h.encoder_version, h.encoder_id,
      h.file_version, h.file_id>>

\* the fields '1', '0', '5', 'abc12', '7', 'def34' of the header line
\* '//ICB0 1:0 5:abc12 7:def34'
C4_Line == << <<49>>, <<48>>, <<53>>, <<97, 98, 99, 49, 50>>, <<55>>,
              <<100, 101, 102, 51, 52>> >>

\* C4: for the header line '//ICB0 1:0 5:abc12 7:def34' each header parser
\* binds the six fields positionally: major 1, minor 0, encoder version 5,
\* encoder id abc12, file version 7, file id def34 (parse_header converts the
\* numeric fields, parse_ioncube_header keeps the strings)
C4_PositionalBinding ==
    (cls \in {"IonCube", "AdvIon"} /\ file.hdr = "icb0" /\ pc # "start") =>
        /\ ~IsEmptyDict(header_info)
        /\ C4_Fields(header_info) =
              IF cls = "AdvIon" THEN C4_Line
              ELSE <<IntOf(C4_Line[1]), IntOf(C4_Line[2]), IntOf(C4_Line[3]), C4_Line[4],
                     IntOf(C4_Line[5]), C4_Line[6]>>

\* C5: when the header pattern is absent from the file or the payload is
\* empty, decode_file returns failure, accepts no method's result and writes
\* no output file
C5_StructuralError ==
    (/\ cls \in {"Ultimate", "AdvSrc"}
     /\ pc = "done"
     /\ (IsEmptyDict(header_info) \/ file.kind = "empty"))
        => ret = "False" /\ ~Truthy(best_result) /\ ~Truthy(written)

\* the bytes of a method's result: the methods of UltimateIonCubeDecoder and
\* IonCubeDecoder return the text, method_direct_b64_zlib the bytes
C6_Bytes(r) == IF cls = "AdvSrc" THEN r.val ELSE Utf8Encode(r.val)

\* C6: the direct method, the first of each method list, applied to
\* base64(zlib_compress(p)) returns exactly p, byte for byte
C6_DirectRoundTrip ==
    (/\ cls \in {"AdvSrc", "Ultimate", "IonCube"}
     /\ file \in DirectFiles
     /\ Len(produced) >= 1)
        => produced[1].result.ok /\ C6_Bytes(produced[1].result) = PlainOf(file)

\* C7: for a payload that is the zlib stream of the source XORed with 0x5A
\* the single-byte-XOR method (the third method of UltimateIonCubeDecoder,
\* try_ioncube_v4_decode, the second of AdvancedIonCubeDecoder) returns the
\* plaintext, and accepts under no key but 0x5A
C7_XorRecovered ==
    (file \in XorFiles /\ file.key = 90) =>
        /\ (cls = "Ultimate" /\ Len(produced) >= 3) =>
              /\ produced[3].result = Some(Utf8Ignore(PlainOf(file)))
              /\ \A k \in 1..Len(Ultimate_encryption_keys) :
                    Ultimate_xor_key_result(Ultimate_decoded(payload).val, k).ok
                        => Ultimate_encryption_keys[k] = 90
        /\ (cls = "AdvIon" /\ Len(produced) >= 2) =>
              produced[2].result = Some(Utf8Ignore(PlainOf(file)))

\* C8: for N junk bytes before a zlib stream, N in {1, 7, 16, 63}, the
\* offset-scanning decompression of each decoder (decompress_data in the
\* first method of IonCubeDecoder, _method_skip_header_zlib, the second of
\* UltimateIonCubeDecoder, try_decompress_and_decode on the first chunk of
\* IonCubeV83Decoder) returns the plaintext, and N is an offset it scans
C8_JunkSkipped ==
    file \in JunkFiles =>
        /\ (cls \in {"IonCube", "V83"} /\ Len(produced) >= 1) =>
              produced[1].result = Some(Utf8Ignore(PlainOf(file)))
        /\ (cls = "Ultimate" /\ Len(produced) >= 2) =>
              /\ produced[2].result = Some(Utf8Ignore(PlainOf(file)))
              /\ \E k \in 1..Len(Ultimate_skips(Ultimate_decoded(payload).val)) :
                    Ultimate_skips(Ultimate_decoded(payload).val)[k] = file.junk

\* C9: when the payload decodes under no method the search reports failure:
\* best_result stays empty, the top-level function returns False and no
\* recovered-source file is written
C9_NothingDecoded ==
    (cls \in {"Practical", "Ultimate"} /\ pc = "done" /\ file.kind = "garbage")
        => ~Truthy(best_result) /\ ret = "False" /\ ~Truthy(written)

\* a place after every iteration of every method loop
C10_Returned == 4 * (Ultimate_method_count + 2)

\* where a run is: the iteration of the method loop and the place in it,
\* then the marker, then the scan or chunk offset; past everything at the
\* return
C10_Rank ==
    IF pc = "done" THEN <<C10_Returned, 0, 0>>
    ELSE IF pc = "exited" THEN <<C10_Returned + 1, 0, 0>>
    ELSE <<4 * mi + (CASE pc \in {"start", "methods"} -> 0
                        [] pc \in {"scan", "chunks", "save", "fallback"} -> 1
                        [] pc = "extract" -> 2),
           IF pc = "scan" THEN mk ELSE 0,
           IF pc \in {"scan", "chunks"} THEN start ELSE 0>>

\* a is before b, the first place that differs deciding
C10_Before(a, b) ==
    \/ a[1] < b[1]
    \/ a[1] = b[1] /\ a[2] < b[2]
    \/ a[1] = b[1] /\ a[2] = b[2] /\ a[3] < b[3]

\* what the length of the payload allows a run's place to be
C10_InRange(r) ==
    /\ r[1] \in 0..(C10_Returned + 1)
    /\ r[2] \in 0..Len(Practical_markers)
    /\ r[3] \in 0..(Len(payload) + V83_chunk_size)

\* C10: every run terminates: every step of a method's loop (the marker
\* scan, the chunk loop, the method loop) moves the run strictly forward
\* through places that the finite payload bounds, so no loop repeats for
\* ever and the top-level function reaches its return
C10_Terminates ==
    [][C10_Before(C10_Rank, C10_Rank') /\ C10_InRange(C10_Rank')]_vars

\* C10, its case: a run whose marker scan found a marker at more than one
\* position, and came to its return
C10_ScanReturned ==
    /\ cls = "Practical"
    /\ pc = "done"
    /\ \E k \in 1..Len(structures) : Len(structures[k].positions) >= 2

\* C11: each operation of the XOR, rotation and additive families of
\* UltimateIonCubeDecoder is undone by the operation it is paired with: XOR
\* with a key applied twice, rotate left then right and right then left, add
\* 128 then subtract 128, (256 - b) % 256 twice, b ^ 0xFF twice, Caesar shift
\* s then shift 256 - s, and reversal twice each return the byte string
C11_RoundTrip ==
    (pc = "undone" /\ mi \in 1..8) => produced[2].result = Some(payload)

\* C11, its case: a byte that the XOR with key 0x5A changed, and a byte that
\* a Caesar shift wrapped past 255, each put through the pair
C11_Undone ==
    /\ pc = "undone"
    /\ Len(payload) = 1
    /\ \/ mi = 1 /\ mk = 90 /\ produced[1].result.val # payload
       \/ mi = 7 /\ payload[1] + mk > 255

\* C12: every plausibility scorer is total and deterministic: a call
\* returns a verdict and never raises, also on the empty text and on text of
\* control characters only; the empty text is rejected with score 0; and two
\* calls of a scorer on the same text return the same score and verdict
\* whatever was scored between them
C12_TotalDeterministic ==
    \A i \in 1..Len(produced) :
        /\ ~produced[i].result.raised
        /\ produced[i].text = <<>> =>
              ~produced[i].result.verdict /\ produced[i].result.score = 0
        /\ \A j \in 1..Len(produced) :
              (produced[j].method = produced[i].method /\ produced[j].text = produced[i].text)
                  => produced[j].result = produced[i].result

\* C12, its case: is_readable_php called with the empty text after a text
\* it accepted
C12_EmptyAfterAccepted ==
    /\ Len(produced) = 2
    /\ produced[1].method = "AdvSrc" /\ produced[1].result.verdict
    /\ produced[2].method = "AdvSrc" /\ produced[2].text = <<>>

\* C13: the exit code of every command-line entry point is 0 exactly when
\* decode_file / recover_source returned success, and 1 on every other
\* outcome
C13_ExitCode ==
    pc = "exited" => exit_code = Some(IF ret = "True" THEN 0 ELSE 1)

\* what the top-level function returns for a best_result
C14_Outcome(best) ==
    IF cls = "Practical"
    THEN (IF PTruthy(best) THEN "True" ELSE "False")
    ELSE (IF best.ok THEN "True" ELSE "False")

IterationBound == 2

\* C15: the orchestrator keeps to an iteration bound: once the bound is
\* reached while methods remain untried, the search stops and returns the
\* best candidate found so far, so no run calls more methods than the bound
C15_StopsAtBound ==
    cls \in {"Ultimate", "AdvSrc", "Practical"} => Len(produced) <= IterationBound

\* C16: when no header pattern matches the preamble, the header parser
\* returns the absent value (False, the empty record) and does not raise
C16_AbsentNotRaised ==
    (pc = "parsed" /\ Parser_matching(cls, payload) = {}) =>
        /\ ~produced[1].result.raised
        /\ ~produced[1].result.present
        /\ produced[1].result.info = <<>>

\* the first pattern of the list that matches
C17_First == CHOOSE k \in Parser_matching(cls, payload) :
                \A j \in Parser_matching(cls, payload) : k <= j

\* C17: in parse_ioncube_header of AdvancedIonCubeDecoder the first pattern
\* that matches wins: the header is reported present also when that pattern
\* captured fewer groups than the schema has fields, its fields are bound
\* from that pattern's groups, and the trailing fields it left unresolved
\* equal the last captured value
C17_FirstMatchBinds ==
    (cls = "AdvIon" /\ pc = "parsed" /\ Parser_matching(cls, payload) # {}) =>
        LET g == Parser_groups(payload, C17_First)
            info == produced[1].result.info
        IN  /\ produced[1].result.present
            /\ ~IsEmptyDict(info)
            /\ info.format_version = g[1]
            /\ info.file_id = g[Len(g)]

\* the base64 alphabet A-Z a-z 0-9 + / =
C18_Alphabet(c) == IsB64(c) \/ c = 61

\* a comment line: it starts with '//' and is not made of alphabet characters
C18_Comment(line) ==
    StartsWith(Strip(line), S_Comment) /\ \E i \in 1..Len(line) : ~C18_Alphabet(line[i])

\* the alphabet-filtered text of the non-empty, non-comment lines that follow
\* the first closing-delimiter line
C18_Payload(content) ==
    LET Of(lines) ==
            LET ends == {i \in 1..Len(lines) : Strip(lines[i]) = S_Close}
                first == CHOOSE i \in ends : \A j \in ends : i <= j
            IN  IF ends = {} THEN <<>>
                ELSE Flatten([i \in 1..Len(lines) |->
                        IF i > first /\ Strip(lines[i]) # <<>> /\ ~C18_Comment(lines[i])
                        THEN SelectSeq(lines[i], C18_Alphabet) ELSE <<>>])
    IN  Of(Split(content, 10))

\* C18: textual payload extraction returns exactly the concatenation, in file
\* order, of the alphabet-filtered text of every non-empty, non-comment line
\* after the first closing-delimiter line: nothing before the boundary and no
\* comment line contributes, no payload line after it is dropped for what it
\* contains, and every character of the result is in the base64 alphabet.
C18_ExtractsPayload ==
    pc = "extracted" =>
        /\ produced[1].result.data = C18_Payload(payload)
        /\ \A i \in 1..Len(produced[1].result.data) :
               C18_Alphabet(produced[1].result.data[i])

\* the offset of the byte after the 3rd newline of the file
C19_Offset == IndicesWhere(payload, LAMBDA i : payload[i] = 10)[3]

\* C19: binary-safe payload extraction returns the raw bytes of the file from
\* the byte after the 3rd newline (the boundary line) to the end of the file,
\* byte for byte: its length is the file length minus that offset and no byte
\* is dropped, replaced or re-encoded, also when bytes are not valid UTF-8.
C19_ByteForByte ==
    pc = "payload" =>
        /\ Len(produced[1].result) = Len(payload) - C19_Offset
        /\ \A i \in 1..Len(produced[1].result) :
               produced[1].result[i] = payload[C19_Offset + i]

\* C20: the single-byte-XOR method of UltimateIonCubeDecoder covers the full
\* keyspace: when it has run on a decodable payload and no key gave an
\* accepted candidate, every key of 0..255 was tried, that is, every key is
\* one of encryption_keys, the keys the loop goes through.
C20_FullKeyspace ==
    (/\ cls = "Ultimate"
     /\ Len(produced) >= 3
     /\ Ultimate_decoded(payload).ok
     /\ ~produced[3].result.ok)
        => \A key \in 0..255 :
              \E k \in 1..Len(Ultimate_encryption_keys) : Ultimate_encryption_keys[k] = key

\* C21: every candidate of the orchestrator derives from the extracted
\* payload: for the files with the ICB0 header whose payloads (garbage, or
\* nothing) decode under no method, no method of PracticalSourceRecovery
\* returns a candidate, so none returns the text that the header alone gives
C21_FromPayload ==
    (cls = "Practical" /\ file.hdr = "icb0" /\ file.kind \in {"garbage", "empty"})
        => \A i \in 1..Len(produced) :
              /\ ~PTruthy(produced[i].result)
              /\ produced[i].result.val # method_smart_reconstruction(header_info).val

\* the header or the payload of the file is absent for the class: what makes
\* decode_file return before the method loop
C22_Absent ==
    IF cls = "Ultimate"
    THEN Ultimate_extract_payload(Utf8Ignore(FileBytes(file))) = <<>>
    ELSE IF cls = "IonCube"
    THEN \/ ~IonCube_parse_header(FileText(file)).ok
         \/ ~Truthy(IonCube_extract_encoded_data(FileText(file)))
    ELSE \/ ~AdvIon_parse_ioncube_header(FileText(file)).ok
         \/ ~Truthy(AdvIon_extract_binary_payload(FileText(file)))

C23_NibbleSwap ==
    (mi = 9 /\ pc \in {"applied", "undone"}) =>
        /\ Len(produced[1].result.val) = Len(payload)
        /\ \A i \in 1..Len(payload) :
              produced[1].result.val[i] = (payload[i] % 16) * 16 + (payload[i] \div 16)
        /\ pc = "undone" => produced[2].result = Some(payload)

\* C30: swap_pairs of try_simple_transformations is a length-preserving
\* involution: for a byte string of even or odd length its output has the
\* length of the input, and swap_pairs applied twice returns the input
C30_SwapPairsInvolution ==
    (mi = 10 /\ pc \in {"applied", "undone"}) =>
        /\ Len(produced[1].result.val) = Len(payload)
        /\ pc = "undone" => produced[2].result = Some(payload)

\* C24: a scorer accepts a text exactly when its total score reaches the
\* pass threshold: each call of _is_valid_php (threshold 15) and of
\* is_valid_php of IonCubeV83Decoder (threshold 4) returns True if and only
\* if strong-marker score + capped variable score + capped syntax score -
\* binary penalty of the text is at least the threshold, whatever its length
C24_AcceptsAtThreshold ==
    \A i \in 1..Len(produced) :
        /\ produced[i].method = "Ultimate" =>
              (produced[i].result.verdict <=>
                  Ultimate_score(produced[i].text) >= Ultimate_threshold)
        /\ produced[i].method = "V83" =>
              (produced[i].result.verdict <=> V83_score(produced[i].text) >= V83_threshold)

\* C25: every offset scan is capped: the number of start offsets at which a
\* method attempts decompression on one payload is at most 512, however long
\* the payload is
C25_ScanCapped ==
    pc = "scanned" => Len(positions) <= 512

\* C26: every result on which UltimateIonCubeDecoder.decode_file reports
\* success was accepted by the scorer: when decode_file has returned True,
\* decoded_content is a text for which _is_valid_php returns True
C26_SuccessWasAccepted ==
    (cls = "Ultimate" /\ pc \in {"done", "exited"} /\ ret = "True")
        => best_result.ok /\ Ultimate_is_valid_php(best_result.val)

\* C27: IonCubeDecoder.decode_file leaves the decoder unchanged on failure:
\* when it has returned False, decoded_content has the value it had before
\* the call, the empty text of a fresh decoder
C27_FailureKeepsContent ==
    (cls = "IonCube" /\ pc \in {"done", "exited"} /\ ret = "False")
        => best_result = InitialContent(cls)

\* C28: reported success implies that the recovered file exists: when
\* AdvancedSourceRecoveryDecoder.decode_file has returned True, and when main
\* of ioncube_decoder.py has exited with 0, the recovered source was written
\* to the output path
C28_SuccessHasFile ==
    /\ (cls = "AdvSrc" /\ pc \in {"done", "exited"} /\ ret = "True") => written.ok
    /\ (cls = "IonCube" /\ pc = "exited" /\ exit_code = Some(0)) => written.ok

=============================================================================
